---- MODULE Spec2Model ----
(***************************************************************************)
(* Model of the analysis pipeline of the AI visibility tracker:            *)
(*   routes/analysis.js        (start request, progress stream)            *)
(*   services/analysisRunner.js (runAnalysis, calculateMetrics)            *)
(*   services/geminiService.js  (analyzePrompt and the extractors)         *)
(*   routes/projects.js         (project creation, brands, prompts)        *)
(*   services/promptGenerator.js (generate)                                *)
(* JavaScript runs the handlers on one thread: the code between two awaits *)
(* is one atomic step.  Every action below is the completion of one        *)
(* awaited call together with the synchronous code that follows it up to   *)
(* the next await.                                                         *)
(*                                                                         *)
(* Representation of JavaScript values:                                    *)
(*   a string is a sequence of one-character strings; null/undefined       *)
(*   strings are the empty sequence where the code reads them with `||`;   *)
(*   an error message is a TLA+ string, "" when the field is absent;       *)
(*   a null position is 0 (positions are 1-based);                         *)
(*   a nullable TEXT column is <<>> for null and <<v>> for the value v;    *)
(*   a nullable REAL column is <<>> for null and <<n, d>> for n/d.         *)
(***************************************************************************)
EXTENDS Integers, Sequences, FiniteSets, TLC

\* ------------------------------------------------------------------ bounds
\* Number of start requests and of stream requests the model issues, number
\* of prompts of the project, number of faults the external collaborators
\* (persistence, progress channel) may raise.
MaxFaults == 2
NumPrompts == 2
\* Longest response text and longest brand list given to extractBrandMentions
\* on its own.
MaxTextLen == 3
MaxBrands == 2

ReqIds == {"r1", "r2"}
ObsIds == {"o1", "o2"}
PromptIds == 1..NumPrompts

\* ----------------------------------------------------------------- strings
UpperCase == <<"A", "B", "C", "D", "E", "F", "G", "H", "I", "J", "K", "L", "M",
               "N", "O", "P", "Q", "R", "S", "T", "U", "V", "W", "X", "Y", "Z">>
LowerCase == <<"a", "b", "c", "d", "e", "f", "g", "h", "i", "j", "k", "l", "m",
               "n", "o", "p", "q", "r", "s", "t", "u", "v", "w", "x", "y", "z">>
Digits == {"0", "1", "2", "3", "4", "5", "6", "7", "8", "9"}

Range(s) == {s[i] : i \in 1..Len(s)}

\* \w of a JavaScript regular expression
isWordChar(c) == c \in Range(UpperCase) \cup Range(LowerCase) \cup Digits \cup {"_"}

\* the case folding of the `i` flag
toLowerCase(c) ==
  IF c \in Range(UpperCase)
    THEN LowerCase[CHOOSE i \in 1..Len(UpperCase) : UpperCase[i] = c]
    ELSE c

\* \b at the gap before index pos (1-based) of text: exactly one of the two
\* neighbouring characters is a word character, the text edge counting as none
wordBoundary(text, pos) ==
  LET before == pos > 1 /\ isWordChar(text[pos - 1])
      after == pos <= Len(text) /\ isWordChar(text[pos])
  IN  before # after

\* new RegExp(`\\b${escapeRegex(brand)}\\b`, 'i') matches text at index pos:
\* escapeRegex makes every character of brand a literal
matchesAt(text, brand, pos) ==
  /\ pos + Len(brand) - 1 <= Len(text)
  /\ \A j \in 1..Len(brand) : toLowerCase(text[pos + j - 1]) = toLowerCase(brand[j])
  /\ wordBoundary(text, pos)
  /\ wordBoundary(text, pos + Len(brand))

\* text.match(regex): index of the first match, 0 when there is none
\* (match.index is 0-based in the code and -1 for no match; the model is 1-based)
firstIndex(text, brand) ==
  IF \E pos \in 1..Len(text) : matchesAt(text, brand, pos)
    THEN CHOOSE pos \in 1..Len(text) :
           /\ matchesAt(text, brand, pos)
           /\ \A q \in 1..(pos - 1) : ~matchesAt(text, brand, q)
    ELSE 0

\* [...text.matchAll(regex)].length with the 'g' flag: non-overlapping matches,
\* scanning resumes after the end of each match
RECURSIVE countFrom(_, _, _)
countFrom(text, brand, pos) ==
  IF pos > Len(text) THEN 0
  ELSE IF matchesAt(text, brand, pos)
    THEN 1 + countFrom(text, brand, pos + Len(brand))
    ELSE countFrom(text, brand, pos + 1)

matchCount(text, brand) == countFrom(text, brand, 1)

\* a position that is the index of the brand in the brands array
positionByListIndex(text, brands, k) ==
  IF firstIndex(text, brands[k]) = 0 THEN 0 ELSE k

\* brandPositions.filter(...).sort(...) and positionMap: the 1-based rank of a
\* matched brand by first-match index.  Array.prototype.sort is stable, so
\* brands with the same first index keep the order of the brands array.
positionOf(text, brands, k) ==
  LET fi(j) == firstIndex(text, brands[j])
  IN  IF fi(k) = 0 THEN 0
      ELSE 1 + Cardinality({j \in 1..Len(brands) :
                 /\ fi(j) # 0
                 /\ \/ fi(j) < fi(k)
                    \/ fi(j) = fi(k) /\ j < k})

\* new RegExp(pattern, 'i') compiles: every ( of the pattern has its ) and
\* every ) its (.  Of the characters that are special in a pattern only the
\* parentheses occur in the brand names of this model.
RECURSIVE groupsClose(_, _, _)
groupsClose(pattern, i, depth) ==
  IF i > Len(pattern) THEN depth = 0
  ELSE IF pattern[i] = "(" THEN groupsClose(pattern, i + 1, depth + 1)
  ELSE IF pattern[i] = ")" THEN depth > 0 /\ groupsClose(pattern, i + 1, depth - 1)
  ELSE groupsClose(pattern, i + 1, depth)

\* checkIfRecommended(text, brand) raises a SyntaxError: the brand goes into
\* the patterns as it is, and `some` compiles `recommend ${lowerBrand}` first.
\* The value checkIfRecommended returns otherwise is not part of the model.
checkIfRecommendedThrows(text, brand) ==
  LET lowerBrand == [j \in 1..Len(brand) |-> toLowerCase(brand[j])]
  IN  ~groupsClose(<<"r", "e", "c", "o", "m", "m", "e", "n", "d", " ">> \o lowerBrand, 1, 0)

\* extractBrandMentions(text, brands) raises: checkIfRecommended is called for
\* the brands that have a match (line 414)
extractBrandMentionsThrows(text, brands) ==
  \E k \in 1..Len(brands) :
    matchCount(text, brands[k]) > 0 /\ checkIfRecommendedThrows(text, brands[k])

\* extractBrandMentions(text, brands): one record per brand, in brands order
extractBrandMentions(text, brands) ==
  [k \in 1..Len(brands) |->
     IF matchCount(text, brands[k]) > 0
       THEN [brand |-> brands[k], mentioned |-> TRUE,
             count |-> matchCount(text, brands[k]),
             position |-> positionOf(text, brands, k)]
       ELSE [brand |-> brands[k], mentioned |-> FALSE, count |-> 0, position |-> 0]]

\* new URL(url) for the strings of the model, which either have the scheme
\* https or no scheme at all: schemeEnd is the index of the colon that ends
\* the scheme, 0 when the string has none (the constructor raises then).
RECURSIVE schemeEnd(_, _)
schemeEnd(url, i) ==
  IF i > Len(url) THEN 0
  ELSE IF url[i] = ":" THEN (IF i > 1 THEN i ELSE 0)
  ELSE IF url[i] \in Range(LowerCase) \cup Range(UpperCase) THEN schemeEnd(url, i + 1)
  ELSE 0

\* the index of the first character of the host: the slashes that follow the
\* scheme are skipped
RECURSIVE hostStart(_, _)
hostStart(url, i) ==
  IF i <= Len(url) /\ url[i] = "/" THEN hostStart(url, i + 1) ELSE i

\* the index after the last character of the host
RECURSIVE hostEnd(_, _)
hostEnd(url, i) ==
  IF i <= Len(url) /\ url[i] # "/" THEN hostEnd(url, i + 1) ELSE i

\* new URL(url) raises: no scheme, or no host after it
urlThrows(url) ==
  \/ schemeEnd(url, 1) = 0
  \/ LET from == hostStart(url, schemeEnd(url, 1) + 1)
     IN  hostEnd(url, from) = from

\* new URL(url).hostname, in lower case
hostname(url) ==
  LET from == hostStart(url, schemeEnd(url, 1) + 1)
  IN  [j \in 1..(hostEnd(url, from) - from) |-> toLowerCase(url[from + j - 1])]

\* extractDomain(url), lines 480-487: the hostname without a leading "www.",
\* the url itself when new URL raises
extractDomain(url) ==
  IF urlThrows(url) THEN url
  ELSE LET host == hostname(url)
       IN  IF Len(host) >= 4 /\ SubSeq(host, 1, 4) = <<"w", "w", "w", ".">>
             THEN SubSeq(host, 5, Len(host)) ELSE host

\* chunk.web.title || '': a title is <<>> when the chunk has none
titleOrEmpty(title) == IF title = <<>> THEN "" ELSE title[1]

\* the loop of extractCitations without the seenUrls test
RECURSIVE citationsFromKeepsDuplicates(_, _, _)
citationsFromKeepsDuplicates(chunks, i, seen) ==
  IF i > Len(chunks) THEN <<>>
  ELSE IF chunks[i].web
    THEN <<[url |-> chunks[i].uri, title |-> titleOrEmpty(chunks[i].title),
            domain |-> extractDomain(chunks[i].uri)]>>
           \o citationsFromKeepsDuplicates(chunks, i + 1, seen)
    ELSE citationsFromKeepsDuplicates(chunks, i + 1, seen)

\* the loop of extractCitations (lines 459-468) from chunk i on, seen being
\* seenUrls: chunks with a web entry, first occurrence of each uri.  A chunk
\* is [isNull, web, uri, title]: isNull for a null entry of the list, web for
\* a chunk that has a web entry.
RECURSIVE citationsFrom(_, _, _)
citationsFrom(chunks, i, seen) ==
  IF i > Len(chunks) THEN <<>>
  ELSE IF chunks[i].web /\ chunks[i].uri \notin seen
    THEN <<[url |-> chunks[i].uri, title |-> titleOrEmpty(chunks[i].title),
            domain |-> extractDomain(chunks[i].uri)]>>
           \o citationsFrom(chunks, i + 1, seen \cup {chunks[i].uri})
    ELSE citationsFrom(chunks, i + 1, seen)

\* The grounding metadata of a response is [defined, kind, groundingChunks]:
\* defined is FALSE when the candidate has no groundingMetadata; kind says
\* what its groundingChunks property is: "undefined", a "list" of chunks, or
\* a "number", a value that is truthy and not iterable.
NoMetadata == [defined |-> FALSE, kind |-> "undefined", groundingChunks |-> <<>>]
Metadata(chunks) == [defined |-> TRUE, kind |-> "list", groundingChunks |-> chunks]

\* extractCitations raises a TypeError: `for (const chunk of chunks)` on a
\* value that is not iterable, `chunk.web` on a null chunk
extractCitationsThrows(groundingMetadata) ==
  /\ groundingMetadata.defined
  /\ \/ groundingMetadata.kind = "number"
     \/ /\ groundingMetadata.kind = "list"
        /\ \E i \in 1..Len(groundingMetadata.groundingChunks) :
             groundingMetadata.groundingChunks[i].isNull

\* extractCitations(groundingMetadata), lines 446-475, when it returns
extractCitations(groundingMetadata) ==
  IF ~groundingMetadata.defined \/ groundingMetadata.kind # "list" THEN <<>>
  ELSE citationsFrom(groundingMetadata.groundingChunks, 1, {})

\* ------------------------------------------------------------ the project
\* One project "p1" with the brands Acme (the user brand) and Globex and
\* NumPrompts prompts; "p0" is a project id that does not exist.
Acme == <<"A", "c", "m", "e">>
Globex == <<"G", "l", "o", "b", "e", "x">>
Brands == <<Acme, Globex>>
BrandIds == 1..Len(Brands)
ProjectIds == {"p0", "p1"}
ProjectExists(p) == p = "p1"

\* Brand.isUserBrand: the first brand is the brand of the user
isUserBrand(b) == b = 1

\* project.brands of a findUnique with { include: { brands: true } } when the
\* Brand table holds the rows S: the ids in id order
brandList(S) == SelectSeq([b \in BrandIds |-> b], LAMBDA b : b \in S)
BrandLists == {brandList(S) : S \in SUBSET BrandIds}

\* project.brands.map(b => b.name)
brandNames(bs) == [j \in 1..Len(bs) |-> Brands[bs[j]]]

\* project.brands.find(b => b.name === mention.brand): the brand id, 0 if none
findBrand(bs, name) ==
  IF \E j \in 1..Len(bs) : Brands[bs[j]] = name
    THEN bs[CHOOSE j \in 1..Len(bs) : Brands[bs[j]] = name]
    ELSE 0

\* ------------------------------------------------------- the AI provider
\* What model.generateContent can do for one prompt: return a response
\* (text and grounding chunks) or raise.
TextBoth == <<"A", "c", "m", "e", ",", " ", "g", "l", "o", "b", "e", "x", ".">>
TextGlobex == <<"G", "l", "o", "b", "e", "x", "e", "s", " ", "G", "L", "O", "B", "E", "X">>
NoChunks == <<>>
UriA ==
  <<"h", "t", "t", "p", "s", ":", "/", "/", "w", "w", "w", ".", "a", ".", "i", "o", "/", "x">>
OneChunk == <<[isNull |-> FALSE, web |-> TRUE, uri |-> UriA, title |-> <<"A">>]>>

ProviderOutcomes ==
  { [kind |-> "ok", text |-> TextBoth, groundingMetadata |-> Metadata(OneChunk),
     message |-> ""],
    [kind |-> "ok", text |-> TextGlobex, groundingMetadata |-> NoMetadata,
     message |-> ""],
    [kind |-> "raise", text |-> <<>>, groundingMetadata |-> NoMetadata,
     message |-> "quota exceeded"] }

\* error.message of what the try block of analyzePrompt raised
caughtMessage(outcome, brands) ==
  IF outcome.kind # "ok" THEN outcome.message
  ELSE IF extractBrandMentionsThrows(outcome.text, brands)
    THEN "Invalid regular expression"
  ELSE IF outcome.groundingMetadata.kind = "number" THEN "chunks is not iterable"
  ELSE "Cannot read properties of null (reading 'web')"

\* the try block of analyzePrompt (lines 324-354) raises
tryThrows(outcome, brands) ==
  \/ outcome.kind # "ok"
  \/ extractBrandMentionsThrows(outcome.text, brands)
  \/ extractCitationsThrows(outcome.groundingMetadata)

\* analyzePrompt with a catch block that rethrows the provider's error
analyzePromptRethrows(outcome, brands) ==
  IF ~tryThrows(outcome, brands)
    THEN [threw |-> FALSE, success |-> TRUE, response |-> outcome.text, error |-> "",
          mentions |-> extractBrandMentions(outcome.text, brands),
          citations |-> extractCitations(outcome.groundingMetadata)]
    ELSE [threw |-> TRUE, success |-> FALSE, response |-> <<>>,
          error |-> caughtMessage(outcome, brands),
          mentions |-> <<>>, citations |-> <<>>]

\* analyzePrompt(prompt, brands) for a given provider outcome.  `threw` says
\* whether the call rejects instead of returning a result object.  The catch
\* block (lines 355-372) takes what the provider call raises and what the
\* extractors raise.
analyzePrompt(outcome, brands) ==
  IF ~tryThrows(outcome, brands)
    THEN [threw |-> FALSE, success |-> TRUE, response |-> outcome.text, error |-> "",
          mentions |-> extractBrandMentions(outcome.text, brands),
          citations |-> extractCitations(outcome.groundingMetadata)]
    ELSE [threw |-> FALSE, success |-> FALSE, response |-> <<>>,
          error |-> caughtMessage(outcome, brands),
          mentions |-> [k \in 1..Len(brands) |->
                          [brand |-> brands[k], mentioned |-> FALSE, count |-> 0,
                           position |-> 0]],
          citations |-> <<>>]

\* the results of analyzePrompt for the brand lists of the project
analyzeResults ==
  [outcome \in ProviderOutcomes |->
     [bs \in BrandLists |-> analyzePrompt(outcome, brandNames(bs))]]

NoResult ==
  [threw |-> FALSE, success |-> FALSE, response |-> <<>>, error |-> "",
   mentions |-> <<>>, citations |-> <<>>]

\* ------------------------------------------------------------------ state
VARIABLES
  apiKey,           \* process.env.GEMINI_API_KEY is set
  brandRows,        \* the ids of the rows of the Brand table of the project
  promptActive,     \* Prompt.isActive of each prompt of the project
  runs,             \* AnalysisRun rows in creation order, the run id is the index
  promptResults,    \* PromptResult rows of each run in creation order; the id of
                    \* a row is its index among the rows of its run
  brandMentions,    \* BrandMention rows of the prompt results of each run
  citations,        \* Citation rows of the prompt results of each run
  metricsSnapshots, \* MetricsSnapshot rows of each run in creation order
  reqs,             \* the POST /:projectId/run handlers
  tasks,            \* the background runAnalysis call of each run
  sseClients,       \* the Map run id -> response stream of routes/analysis.js
  obs,              \* the GET .../stream handlers and what their streams received
  faults,           \* faults raised so far by persistence and by the stream
  extraction,       \* a call of analyzePrompt on its own: its input and result
  projectRows,      \* Project rows created by POST /api/projects, the id is the index
  brandTable,       \* Brand rows of these projects in creation order, the id is
                    \* the index; a deleted row stays with deleted = TRUE, as ids
                    \* are never used again
  promptRows,       \* Prompt rows of these projects in creation order
  projReqs          \* the handlers of routes/projects.js: create, add, del

vars == <<apiKey, brandRows, promptActive, runs, promptResults, brandMentions, citations,
          metricsSnapshots, reqs, tasks, sseClients, obs, faults, extraction,
          projectRows, brandTable, promptRows, projReqs>>

\* the state of the analysis pipeline, which the project routes leave alone
runVars == <<apiKey, brandRows, promptActive, runs, promptResults, brandMentions,
             citations, metricsSnapshots, reqs, tasks, sseClients, obs, faults,
             extraction>>

RunIds == 1..Cardinality(ReqIds)

\* project.prompts with { where: { isActive: true } }, in id order
activePrompts == SelectSeq([i \in 1..NumPrompts |-> i], LAMBDA p : promptActive[p])

IdleReq == [pc |-> "idle", projectId |-> "p0", nPrompts |-> 0, code |-> 0,
            error |-> "", runId |-> 0]
NoExtraction ==
  [pc |-> "idle", text |-> <<>>, brands |-> <<>>, groundingMetadata |-> NoMetadata,
   threw |-> FALSE, citationsThrew |-> FALSE, result |-> NoResult,
   sentiment |-> [sentiment |-> "", score |-> <<0, 1>>]]

IdleProjReqs ==
  [create |-> [pc |-> "idle", code |-> 0, projectId |-> 0, category |-> <<>>,
               allBrands |-> <<>>, generated |-> 0],
   add |-> [pc |-> "idle", code |-> 0],
   del |-> [pc |-> "idle", code |-> 0, brandId |-> 0]]

\* `replaced` keeps which stream the Map held for the run when the observer
\* was stored in it
IdleObs == [pc |-> "idle", runId |-> 0, status |-> "", processed |-> 0, total |-> 0,
            events |-> <<>>, replaced |-> "none"]

Init ==
  /\ apiKey \in BOOLEAN
  /\ brandRows = BrandIds
  /\ promptActive \in [PromptIds -> BOOLEAN]
  /\ runs = <<>>
  /\ promptResults = [k \in RunIds |-> <<>>]
  /\ brandMentions = [k \in RunIds |-> <<>>]
  /\ citations = [k \in RunIds |-> <<>>]
  /\ metricsSnapshots = [k \in RunIds |-> <<>>]
  /\ reqs = [r \in ReqIds |-> IdleReq]
  /\ tasks = <<>>
  /\ sseClients = [k \in RunIds |-> "none"]
  /\ obs = [o \in ObsIds |-> IdleObs]
  /\ faults = 0
  /\ projectRows = <<>>
  /\ brandTable = <<>>
  /\ promptRows = <<>>
  /\ projReqs = IdleProjReqs
  /\ extraction = NoExtraction

\* A call of an external collaborator may raise while the fault budget lasts.
CanFault == faults < MaxFaults

\* --------------------------------------- POST /api/analysis/:projectId/run
\* analysisRun.findFirst({ where: { projectId } }), without the status filter
findFirstAnyStatus(p) ==
  IF \E k \in 1..Len(runs) : runs[k].projectId = p
    THEN CHOOSE k \in 1..Len(runs) :
           /\ runs[k].projectId = p
           /\ \A j \in 1..(k - 1) : runs[j].projectId # p
    ELSE 0

\* req.prisma.analysisRun.findFirst({ where: { projectId, status: 'processing' } }):
\* the id of the first such run, 0 when there is none
findFirstProcessing(p) ==
  LET hit(k) == runs[k].projectId = p /\ runs[k].status = "processing"
  IN  IF \E k \in 1..Len(runs) : hit(k)
        THEN CHOOSE k \in 1..Len(runs) : hit(k) /\ \A j \in 1..(k - 1) : ~hit(j)
        ELSE 0

\* res.status(code).json({ error, runId }) and the handler returns
Respond(r, p, code, error, runId) ==
  [reqs EXCEPT ![r].pc = "done", ![r].projectId = p, ![r].code = code,
               ![r].error = error, ![r].runId = runId]

\* the task of a run at the first await of runAnalysis (project.findUnique)
NewTask ==
  [pc |-> "findProject", i |-> 0, prompts |-> <<>>, result |-> NoResult, prId |-> 0,
   m |-> 0, caught |-> "", cm |-> <<>>, total |-> 0, snaps |-> <<>>,
   outcomes |-> <<>>, progress |-> <<>>, faulted |-> FALSE,
   again |-> FALSE, first |-> <<>>, brands |-> <<>>]

\* The request arrives and project.findUnique returns; lines 18-52: 404, 400
\* and 500 answers, otherwise analysisRun.findFirst is issued.
ReqFindProject(r, p) ==
  /\ reqs[r].pc = "idle"
  /\ \/ /\ ~ProjectExists(p)
        /\ reqs' = Respond(r, p, 404, "Project not found", 0)
     \/ /\ ProjectExists(p)
        /\ Len(activePrompts) = 0
        /\ reqs' = Respond(r, p, 400, "No active prompts to analyze", 0)
     \/ /\ ProjectExists(p)
        /\ Len(activePrompts) # 0
        /\ ~apiKey
        /\ reqs' = Respond(r, p, 500, "GEMINI_API_KEY not configured", 0)
     \/ /\ ProjectExists(p)
        /\ Len(activePrompts) # 0
        /\ apiKey
        /\ reqs' = [reqs EXCEPT ![r].pc = "findRunning", ![r].projectId = p,
                                ![r].nPrompts = Len(activePrompts)]
  /\ UNCHANGED <<projectRows, brandTable, promptRows, projReqs, extraction,
                 apiKey, brandRows, promptActive, runs,
                 promptResults, brandMentions, citations, metricsSnapshots,
                 tasks, sseClients, obs, faults>>

\* analysisRun.findFirst returns; lines 54-68: 400 with the running run's id,
\* otherwise analysisRun.create is issued.
ReqFindRunning(r) ==
  /\ reqs[r].pc = "findRunning"
  /\ LET runningAnalysis == findFirstProcessing(reqs[r].projectId)
     IN  IF runningAnalysis # 0
           THEN reqs' = Respond(r, reqs[r].projectId, 400,
                                "An analysis is already running for this project",
                                runningAnalysis)
           ELSE reqs' = [reqs EXCEPT ![r].pc = "create"]
  /\ UNCHANGED <<projectRows, brandTable, promptRows, projReqs, extraction,
                 apiKey, brandRows, promptActive, runs,
                 promptResults, brandMentions, citations, metricsSnapshots,
                 tasks, sseClients, obs, faults>>

\* analysisRun.create returns; lines 62-97: the run row exists with status
\* pending, the 202 answer is sent and runAnalysis runs up to its first await.
ReqCreate(r) ==
  /\ reqs[r].pc = "create"
  /\ runs' = Append(runs, [projectId |-> reqs[r].projectId, status |-> "pending",
                           totalPrompts |-> reqs[r].nPrompts, processedPrompts |-> 0])
  /\ reqs' = Respond(r, reqs[r].projectId, 202, "", Len(runs) + 1)
  /\ tasks' = Append(tasks, NewTask)
  /\ UNCHANGED <<projectRows, brandTable, promptRows, projReqs, extraction,
                 apiKey, brandRows, promptActive, promptResults,
                 brandMentions, citations, metricsSnapshots, sseClients, obs,
                 faults>>

\* A persistence call of the handler raises; line 99-101: next(error), the
\* error middleware answers 500.
ReqFault(r) ==
  /\ reqs[r].pc \in {"idle", "findRunning", "create"}
  /\ CanFault
  /\ faults' = faults + 1
  /\ reqs' = Respond(r, reqs[r].projectId, 500, "Internal server error", 0)
  /\ UNCHANGED <<projectRows, brandTable, promptRows, projReqs, extraction,
                 apiKey, brandRows, promptActive, runs,
                 promptResults, brandMentions, citations, metricsSnapshots,
                 tasks, sseClients, obs>>

\* --------------------------------- DELETE /api/projects/:id/brands/:brandId
\* brand.delete returns (routes/projects.js lines 211-229) for a brand that is
\* not the user's: the row is gone and with it, by ON DELETE CASCADE, the
\* BrandMention and MetricsSnapshot rows that refer to it
DeleteBrand(b) ==
  /\ b \in brandRows
  /\ ~isUserBrand(b)
  /\ brandRows' = brandRows \ {b}
  /\ brandMentions' =
       [k \in RunIds |-> SelectSeq(brandMentions[k], LAMBDA x : x.brandId # b)]
  /\ metricsSnapshots' =
       [k \in RunIds |-> SelectSeq(metricsSnapshots[k], LAMBDA x : x.brandId # b)]
  /\ UNCHANGED <<projectRows, brandTable, promptRows, projReqs, extraction,
                 apiKey, promptActive, runs, promptResults,
                 citations, reqs, tasks, sseClients, obs, faults>>

\* ---------------------------------- PATCH /api/projects/:id/prompts/:promptId
UpdatePrompt(p, isActive) ==
  /\ promptActive[p] # isActive
  /\ promptActive' = [promptActive EXCEPT ![p] = isActive]
  /\ UNCHANGED <<projectRows, brandTable, promptRows, projReqs, extraction,
                 apiKey, brandRows, runs, promptResults,
                 brandMentions, citations, metricsSnapshots, reqs, tasks,
                 sseClients, obs, faults>>

\* ------------------------------------------------ AnalysisRunner.runAnalysis
SetTask(k, t) == [tasks EXCEPT ![k] = t]

\* the `if (brand)` guard of the mention loop: the first mention at or after
\* index from whose brand is a brand of the project, 0 when there is none
nextMention(t, from) ==
  LET found(j) == findBrand(t.brands, t.result.mentions[j].brand) # 0
  IN  IF \E j \in from..Len(t.result.mentions) : found(j)
        THEN CHOOSE j \in from..Len(t.result.mentions) :
               found(j) /\ \A q \in from..(j - 1) : ~found(q)
        ELSE 0

\* where the loop body awaits next once the mentions are saved (lines 94-114)
afterMentions(t) ==
  IF Len(t.result.citations) > 0
    THEN [t EXCEPT !.pc = "createCitation", !.m = 1]
    ELSE [t EXCEPT !.pc = "updateProgress"]

\* where the loop body awaits next once the PromptResult is saved (lines 74-92)
afterResult(t) ==
  IF nextMention(t, 1) # 0
    THEN [t EXCEPT !.pc = "createMention", !.m = nextMention(t, 1)]
    ELSE afterMentions(t)

\* a loop that leaves one prompt of the list out
nextPromptSkipsLast(t) ==
  IF t.i + 2 < Len(t.prompts)
    THEN [t EXCEPT !.pc = "delay", !.i = t.i + 1, !.result = NoResult, !.prId = 0,
                   !.m = 0, !.caught = ""]
    ELSE [t EXCEPT !.pc = "cmFind", !.i = t.i + 1, !.result = NoResult, !.prId = 0,
                   !.m = 0, !.caught = ""]

\* a loop that issues the next provider call without the pacing delay
nextPromptNoDelay(t) ==
  IF t.i + 1 < Len(t.prompts)
    THEN [t EXCEPT !.pc = "query", !.i = t.i + 1, !.result = NoResult, !.prId = 0,
                   !.m = 0, !.caught = ""]
    ELSE [t EXCEPT !.pc = "cmFind", !.i = t.i + 1, !.result = NoResult, !.prId = 0,
                   !.m = 0, !.caught = ""]

\* the end of one loop iteration (line 50): the pacing delay of the next
\* prompt, or calculateMetrics up to its first await (lines 144, 166-175)
nextPrompt(t) ==
  IF t.i + 1 < Len(t.prompts)
    THEN [t EXCEPT !.pc = "delay", !.i = t.i + 1, !.result = NoResult, !.prId = 0,
                   !.m = 0, !.caught = ""]
    ELSE [t EXCEPT !.pc = "cmFind", !.i = t.i + 1, !.result = NoResult, !.prId = 0,
                   !.m = 0, !.caught = ""]

\* the catch block of the loop body up to its await (lines 127-137)
catchPrompt(t, message) ==
  [t EXCEPT !.pc = "createErrorResult", !.caught = message]

\* project.findUnique returns (lines 22-45): analysisRun.update is issued
RunFindProject(k) ==
  /\ k \in 1..Len(tasks)
  /\ tasks[k].pc = "findProject"
  /\ tasks' = SetTask(k, [tasks[k] EXCEPT !.pc = "setProcessing",
                                          !.prompts = activePrompts,
                                          !.brands = brandList(brandRows)])
  /\ UNCHANGED <<projectRows, brandTable, promptRows, projReqs, extraction,
                 apiKey, brandRows, promptActive, runs,
                 promptResults, brandMentions, citations, metricsSnapshots,
                 reqs, sseClients, obs, faults>>

\* the update to `processing` returns (lines 38-60): the loop starts with the
\* provider call of the first prompt, with no delay
RunSetProcessing(k) ==
  /\ k \in 1..Len(tasks)
  /\ tasks[k].pc = "setProcessing"
  /\ runs' = [runs EXCEPT ![k].status = "processing",
                          ![k].totalPrompts = Len(tasks[k].prompts)]
  /\ tasks' = SetTask(k, IF Len(tasks[k].prompts) > 0
                           THEN [tasks[k] EXCEPT !.pc = "query"]
                           ELSE [tasks[k] EXCEPT !.pc = "cmFind"])
  /\ UNCHANGED <<projectRows, brandTable, promptRows, projReqs, extraction,
                 apiKey, brandRows, promptActive, promptResults,
                 brandMentions, citations, metricsSnapshots, reqs, sseClients,
                 obs, faults>>

\* the pacing delay elapses (lines 55-60)
RunDelay(k) ==
  /\ k \in 1..Len(tasks)
  /\ tasks[k].pc = "delay"
  /\ tasks' = SetTask(k, [tasks[k] EXCEPT !.pc = "query"])
  /\ UNCHANGED <<projectRows, brandTable, promptRows, projReqs, extraction,
                 apiKey, brandRows, promptActive, runs,
                 promptResults, brandMentions, citations, metricsSnapshots,
                 reqs, sseClients, obs, faults>>

\* analyzePrompt returns (lines 60-72): promptResult.create is issued.  A
\* rejected analyzePrompt would enter the catch block.
RunQuery(k, outcome) ==
  /\ k \in 1..Len(tasks)
  /\ tasks[k].pc = "query"
  /\ LET result == analyzeResults[outcome][tasks[k].brands]
         t == [tasks[k] EXCEPT !.outcomes = Append(@, outcome.kind)]
     IN  tasks' = SetTask(k, IF result.threw
                               THEN catchPrompt(t, outcome.message)
                               ELSE [t EXCEPT !.pc = "createResult", !.result = result])
  /\ UNCHANGED <<projectRows, brandTable, promptRows, projReqs, extraction,
                 apiKey, brandRows, promptActive, runs,
                 promptResults, brandMentions, citations, metricsSnapshots,
                 reqs, sseClients, obs, faults>>

\* a column written as null whatever the value
orNullDropsValue(v, empty) == <<>>

\* `v || null` (lines 67-70) for a string v, empty being its falsy value: the
\* nullable column is <<>> for null and <<v>> otherwise
orNull(v, empty) == IF v = empty THEN <<>> ELSE <<v>>

\* promptResult.create returns (lines 63-92)
RunCreateResult(k) ==
  /\ k \in 1..Len(tasks)
  /\ tasks[k].pc = "createResult"
  /\ promptResults' = [promptResults EXCEPT ![k] = Append(@,
       [promptId |-> tasks[k].prompts[tasks[k].i + 1],
        rawResponse |-> orNull(tasks[k].result.response, <<>>),
        error |-> orNull(tasks[k].result.error, "")])]
  /\ tasks' = SetTask(k, afterResult([tasks[k] EXCEPT
                                        !.prId = Len(promptResults[k]) + 1]))
  /\ UNCHANGED <<projectRows, brandTable, promptRows, projReqs, extraction,
                 apiKey, brandRows, promptActive, runs,
                 brandMentions, citations, metricsSnapshots, reqs, sseClients,
                 obs, faults>>

\* brandMention.create returns (lines 76-92), or raises because the row of
\* the brand is gone (BrandMention_brandId_fkey): the catch block of the loop
\* body takes over
RunCreateMention(k) ==
  /\ k \in 1..Len(tasks)
  /\ tasks[k].pc = "createMention"
  /\ LET t == tasks[k]
         mention == t.result.mentions[t.m]
         brand == findBrand(t.brands, mention.brand)
     IN  IF brand \in brandRows
           THEN /\ brandMentions' = [brandMentions EXCEPT ![k] = Append(@,
                     [promptResultId |-> t.prId, brandId |-> brand,
                      position |-> mention.position])]
                /\ tasks' = SetTask(k, IF nextMention(t, t.m + 1) # 0
                                         THEN [t EXCEPT !.m = nextMention(t, t.m + 1)]
                                         ELSE afterMentions(t))
           ELSE /\ tasks' = SetTask(k, catchPrompt([t EXCEPT !.faulted = TRUE],
                                                   "foreign key constraint failed"))
                /\ UNCHANGED brandMentions
  /\ UNCHANGED <<projectRows, brandTable, promptRows, projReqs, extraction,
                 apiKey, brandRows, promptActive, runs,
                 promptResults, citations, metricsSnapshots, reqs, sseClients,
                 obs, faults>>

\* citation.create returns (lines 95-114)
RunCreateCitation(k) ==
  /\ k \in 1..Len(tasks)
  /\ tasks[k].pc = "createCitation"
  /\ LET t == tasks[k]
         citation == t.result.citations[t.m]
     IN  /\ citations' = [citations EXCEPT ![k] = Append(@,
              [promptResultId |-> t.prId, url |-> citation.url,
               domain |-> citation.domain,
               title |-> orNull(citation.title, "")])]
         /\ tasks' = SetTask(k, IF t.m < Len(t.result.citations)
                                  THEN [t EXCEPT !.m = t.m + 1]
                                  ELSE [t EXCEPT !.pc = "updateProgress"])
  /\ UNCHANGED <<projectRows, brandTable, promptRows, projReqs, extraction,
                 apiKey, brandRows, promptActive, runs,
                 promptResults, brandMentions, metricsSnapshots, reqs,
                 sseClients, obs, faults>>

\* the progress callback of the route (routes/analysis.js lines 81-90) for an
\* event that the stream accepts: the event is written to the registered
\* client, and `complete` ends the stream and removes it from the Map
written(k, event) ==
  IF sseClients[k] = "none" THEN obs
  ELSE [obs EXCEPT ![sseClients[k]].events = Append(@, event),
                   ![sseClients[k]].pc = IF event.type = "complete" THEN "ended" ELSE @]

clientsAfter(k, event) ==
  IF sseClients[k] # "none" /\ event.type = "complete"
    THEN [sseClients EXCEPT ![k] = "none"]
    ELSE sseClients

ProgressEvent(processed, total) ==
  [type |-> "progress", status |-> "", processed |-> processed, total |-> total]
CompleteEvent ==
  [type |-> "complete", status |-> "", processed |-> 0, total |-> 0]

\* the update of processedPrompts returns (lines 111-125): onProgress is
\* called, then the loop goes on.  client.write may raise when a client is
\* registered; the exception is caught by the catch block of the loop body.
RunUpdateProgress(k) ==
  /\ k \in 1..Len(tasks)
  /\ tasks[k].pc = "updateProgress"
  /\ runs' = [runs EXCEPT ![k].processedPrompts = tasks[k].i + 1]
  /\ LET t == [tasks[k] EXCEPT !.progress = Append(@, tasks[k].i + 1)]
         event == ProgressEvent(t.i + 1, Len(t.prompts))
     IN  \/ /\ obs' = written(k, event)
            /\ sseClients' = clientsAfter(k, event)
            /\ tasks' = SetTask(k, nextPrompt(t))
            /\ UNCHANGED faults
         \/ /\ sseClients[k] # "none"
            /\ CanFault
            /\ faults' = faults + 1
            /\ tasks' = SetTask(k, catchPrompt([t EXCEPT !.faulted = TRUE], "write failed"))
            /\ UNCHANGED <<obs, sseClients>>
  /\ UNCHANGED <<projectRows, brandTable, promptRows, projReqs, extraction,
                 apiKey, brandRows, promptActive, promptResults,
                 brandMentions, citations, metricsSnapshots, reqs>>

\* a persistence call inside the try block raises (lines 53-127): the catch
\* block runs up to its promptResult.create
RunTryFault(k) ==
  /\ k \in 1..Len(tasks)
  /\ tasks[k].pc \in {"createResult", "createMention", "createCitation", "updateProgress"}
  /\ CanFault
  /\ faults' = faults + 1
  /\ tasks' = SetTask(k, catchPrompt([tasks[k] EXCEPT !.faulted = TRUE], "database error"))
  /\ UNCHANGED <<projectRows, brandTable, promptRows, projReqs, extraction,
                 apiKey, brandRows, promptActive, runs,
                 promptResults, brandMentions, citations, metricsSnapshots,
                 reqs, sseClients, obs>>

\* the promptResult.create of the catch block returns (lines 131-141)
RunCreateErrorResult(k) ==
  /\ k \in 1..Len(tasks)
  /\ tasks[k].pc = "createErrorResult"
  /\ promptResults' = [promptResults EXCEPT ![k] = Append(@,
       [promptId |-> tasks[k].prompts[tasks[k].i + 1],
        rawResponse |-> <<>>, error |-> <<tasks[k].caught>>])]
  /\ tasks' = SetTask(k, nextPrompt(tasks[k]))
  /\ UNCHANGED <<projectRows, brandTable, promptRows, projReqs, extraction,
                 apiKey, brandRows, promptActive, runs,
                 brandMentions, citations, metricsSnapshots, reqs, sseClients,
                 obs, faults>>

\* a persistence call outside the try block raises: runAnalysis rejects and
\* the .catch of the route issues the update to `failed` (routes/analysis.js
\* lines 91-97)
RunFault(k) ==
  /\ k \in 1..Len(tasks)
  /\ tasks[k].pc \in {"findProject", "setProcessing", "createErrorResult", "cmFind",
                      "cmUpsert", "cmAggregate", "cmFindSnapshots", "cmUpdateShare",
                      "setCompleted"}
  /\ CanFault
  /\ faults' = faults + 1
  /\ tasks' = SetTask(k, [tasks[k] EXCEPT !.pc = "markFailed", !.faulted = TRUE])
  /\ UNCHANGED <<projectRows, brandTable, promptRows, projReqs, extraction,
                 apiKey, brandRows, promptActive, runs,
                 promptResults, brandMentions, citations, metricsSnapshots,
                 reqs, sseClients, obs>>

\* the update to `failed` of the .catch handler returns
RunMarkFailed(k) ==
  /\ k \in 1..Len(tasks)
  /\ tasks[k].pc = "markFailed"
  /\ runs' = [runs EXCEPT ![k].status = "failed"]
  /\ tasks' = SetTask(k, [tasks[k] EXCEPT !.pc = "handled"])
  /\ UNCHANGED <<projectRows, brandTable, promptRows, projReqs, extraction,
                 apiKey, brandRows, promptActive, promptResults,
                 brandMentions, citations, metricsSnapshots, reqs, sseClients,
                 obs, faults>>

\* the update to `failed` raises: nothing handles the rejection of the
\* .catch handler and the run row stays as it is
RunMarkFailedFault(k) ==
  /\ k \in 1..Len(tasks)
  /\ tasks[k].pc = "markFailed"
  /\ CanFault
  /\ faults' = faults + 1
  /\ tasks' = SetTask(k, [tasks[k] EXCEPT !.pc = "unhandled"])
  /\ UNCHANGED <<projectRows, brandTable, promptRows, projReqs, extraction,
                 apiKey, brandRows, promptActive, runs,
                 promptResults, brandMentions, citations, metricsSnapshots,
                 reqs, sseClients, obs>>

\* --------------------------------------------- AnalysisRunner.calculateMetrics
\* array.reduce((a, b) => a + b, 0) and the _sum of an aggregate
RECURSIVE SumSeq(_)
SumSeq(s) == IF s = <<>> THEN 0 ELSE Head(s) + SumSeq(Tail(s))

\* promptResult.findMany({ where: { analysisRunId }, include: { brandMentions,
\* citations } }) (lines 169-175)
findPromptResults(k) ==
  [n \in 1..Len(promptResults[k]) |->
     [error |-> promptResults[k][n].error,
      brandMentions |-> SelectSeq(brandMentions[k], LAMBDA x : x.promptResultId = n),
      citations |-> SelectSeq(citations[k], LAMBDA c : c.promptResultId = n)]]

\* !r.error for a nullable TEXT column: null and the empty string are falsy
hasError(r) == r.error # <<>> /\ r.error[1] # ""

\* a filter that keeps the results with an error
validResultsKeepsErrors(cm) == cm

\* line 177
validResults(cm) == SelectSeq(cm, LAMBDA r : ~hasError(r))

\* the mentions of brand b of one result, with and without a position
mentionedResultsKeepsNull(r, b) ==
  SelectSeq(r.brandMentions, LAMBDA x : x.brandId = b)

\* lines 182-186: the mentions of brand b with a position, of one result
mentionedResults(r, b) ==
  SelectSeq(r.brandMentions, LAMBDA x : x.brandId = b /\ x.position # 0)

\* lines 180-223: the values calculateMetrics writes for brand b
brandMetrics(cm, b) ==
  LET valid == validResults(cm)
      mentioned(n) == mentionedResults(valid[n], b)
      mentionCount == SumSeq([n \in 1..Len(valid) |-> Len(mentioned(n))])
      positionSum ==
        SumSeq([n \in 1..Len(valid) |->
                  SumSeq([j \in 1..Len(mentioned(n)) |-> mentioned(n)[j].position])])
  IN  [mentionCount |-> mentionCount,
       visibilityScore |-> IF Len(valid) > 0 THEN <<mentionCount * 100, Len(valid)>>
                                             ELSE <<0, 1>>,
       averagePosition |-> IF mentionCount > 0 THEN <<positionSum, mentionCount>>
                                               ELSE <<>>,
       firstPositionCount |->
         SumSeq([n \in 1..Len(valid) |->
                   Len(SelectSeq(mentioned(n), LAMBDA x : x.position = 1))]),
       citationCount |->
         SumSeq([n \in 1..Len(valid) |->
                   IF Len(mentioned(n)) > 0 THEN Len(valid[n].citations) ELSE 0])]

\* the row of the unique index (analysisRunId, brandId), 0 when there is none
snapshotIndex(k, b) ==
  IF \E n \in 1..Len(metricsSnapshots[k]) : metricsSnapshots[k][n].brandId = b
    THEN CHOOSE n \in 1..Len(metricsSnapshots[k]) : metricsSnapshots[k][n].brandId = b
    ELSE 0

\* a metricsSnapshot.upsert that inserts without looking for the row of the
\* unique index
upsertAlwaysCreates(k, b, v) ==
  Append(metricsSnapshots[k],
    [brandId |-> b, shareOfVoice |-> <<>>,
     mentionCount |-> v.mentionCount, visibilityScore |-> v.visibilityScore,
     averagePosition |-> v.averagePosition,
     firstPositionCount |-> v.firstPositionCount,
     citationCount |-> v.citationCount])

\* metricsSnapshot.upsert (lines 226-259): create leaves shareOfVoice null,
\* update leaves it as it is
upsert(k, b, v) ==
  LET n == snapshotIndex(k, b)
  IN  IF n = 0
        THEN Append(metricsSnapshots[k],
               [brandId |-> b, shareOfVoice |-> <<>>,
                mentionCount |-> v.mentionCount, visibilityScore |-> v.visibilityScore,
                averagePosition |-> v.averagePosition,
                firstPositionCount |-> v.firstPositionCount,
                citationCount |-> v.citationCount])
        ELSE [metricsSnapshots[k] EXCEPT ![n] =
               [brandId |-> b, shareOfVoice |-> @.shareOfVoice,
                mentionCount |-> v.mentionCount, visibilityScore |-> v.visibilityScore,
                averagePosition |-> v.averagePosition,
                firstPositionCount |-> v.firstPositionCount,
                citationCount |-> v.citationCount]]

\* calculateMetrics returns (line 284): to runAnalysis, which issues the
\* update to `completed` (lines 144-153), or to the caller of a repeated call
toSetCompleted(t) ==
  IF t.again THEN [t EXCEPT !.pc = "aggregated", !.m = 0]
             ELSE [t EXCEPT !.pc = "setCompleted", !.m = 0]

\* promptResult.findMany returns (lines 169-226): the first upsert is issued
RunCmFind(k) ==
  /\ k \in 1..Len(tasks)
  /\ tasks[k].pc = "cmFind"
  /\ tasks' = SetTask(k, IF Len(tasks[k].brands) > 0
                           THEN [tasks[k] EXCEPT !.pc = "cmUpsert", !.m = 1,
                                                 !.cm = findPromptResults(k)]
                           ELSE [tasks[k] EXCEPT !.pc = "cmAggregate", !.m = 0,
                                                 !.cm = findPromptResults(k)])
  /\ UNCHANGED <<projectRows, brandTable, promptRows, projReqs, extraction,
                 apiKey, brandRows, promptActive, runs,
                 promptResults, brandMentions, citations, metricsSnapshots,
                 reqs, sseClients, obs, faults>>

\* metricsSnapshot.upsert returns (lines 180-266), or raises because the row
\* of the brand is gone (MetricsSnapshot_brandId_fkey): calculateMetrics and
\* runAnalysis reject and the .catch of the route issues the update to `failed`
RunCmUpsert(k) ==
  /\ k \in 1..Len(tasks)
  /\ tasks[k].pc = "cmUpsert"
  /\ LET t == tasks[k]
         brand == t.brands[t.m]
     IN  IF brand \in brandRows
           THEN /\ metricsSnapshots' =
                     [metricsSnapshots EXCEPT ![k] =
                        upsert(k, brand, brandMetrics(t.cm, brand))]
                /\ tasks' = SetTask(k, IF t.m < Len(t.brands)
                                         THEN [t EXCEPT !.m = @ + 1]
                                         ELSE [t EXCEPT !.pc = "cmAggregate", !.m = 0])
           ELSE /\ tasks' = SetTask(k, [t EXCEPT !.pc = "markFailed", !.faulted = TRUE])
                /\ UNCHANGED metricsSnapshots
  /\ UNCHANGED <<projectRows, brandTable, promptRows, projReqs, extraction,
                 apiKey, brandRows, promptActive, runs,
                 promptResults, brandMentions, citations, reqs, sseClients, obs,
                 faults>>

\* metricsSnapshot.aggregate returns (lines 263-273)
RunCmAggregate(k) ==
  /\ k \in 1..Len(tasks)
  /\ tasks[k].pc = "cmAggregate"
  /\ LET total == SumSeq([n \in 1..Len(metricsSnapshots[k]) |->
                             metricsSnapshots[k][n].mentionCount])
     IN  tasks' = SetTask(k, IF total > 0
                               THEN [tasks[k] EXCEPT !.pc = "cmFindSnapshots",
                                                     !.total = total]
                               ELSE toSetCompleted([tasks[k] EXCEPT !.total = total]))
  /\ UNCHANGED <<projectRows, brandTable, promptRows, projReqs, extraction,
                 apiKey, brandRows, promptActive, runs,
                 promptResults, brandMentions, citations, metricsSnapshots,
                 reqs, sseClients, obs, faults>>

\* metricsSnapshot.findMany returns (lines 271-281)
RunCmFindSnapshots(k) ==
  /\ k \in 1..Len(tasks)
  /\ tasks[k].pc = "cmFindSnapshots"
  /\ LET snaps == [n \in 1..Len(metricsSnapshots[k]) |->
                     [id |-> metricsSnapshots[k][n].brandId,
                      mentionCount |-> metricsSnapshots[k][n].mentionCount]]
     IN  tasks' = SetTask(k, IF Len(snaps) > 0
                               THEN [tasks[k] EXCEPT !.pc = "cmUpdateShare", !.m = 1,
                                                     !.snaps = snaps]
                               ELSE toSetCompleted(tasks[k]))
  /\ UNCHANGED <<projectRows, brandTable, promptRows, projReqs, extraction,
                 apiKey, brandRows, promptActive, runs,
                 promptResults, brandMentions, citations, metricsSnapshots,
                 reqs, sseClients, obs, faults>>

\* metricsSnapshot.update of shareOfVoice returns (lines 275-283), or raises
\* because the snapshot is gone (record to update not found).  A snapshot is
\* identified within its run by its brand.
RunCmUpdateShare(k) ==
  /\ k \in 1..Len(tasks)
  /\ tasks[k].pc = "cmUpdateShare"
  /\ LET t == tasks[k]
         snapshot == t.snaps[t.m]
         n == snapshotIndex(k, snapshot.id)
     IN  IF n # 0
           THEN /\ metricsSnapshots' =
                     [metricsSnapshots EXCEPT ![k][n].shareOfVoice =
                        <<snapshot.mentionCount * 100, t.total>>]
                /\ tasks' = SetTask(k, IF t.m < Len(t.snaps) THEN [t EXCEPT !.m = @ + 1]
                                                             ELSE toSetCompleted(t))
           ELSE /\ tasks' = SetTask(k, [t EXCEPT !.pc = "markFailed", !.faulted = TRUE])
                /\ UNCHANGED metricsSnapshots
  /\ UNCHANGED <<projectRows, brandTable, promptRows, projReqs, extraction,
                 apiKey, brandRows, promptActive, runs,
                 promptResults, brandMentions, citations, reqs, sseClients, obs,
                 faults>>

\* calculateMetrics(runId, project) is called once more for a run that has
\* returned, with the project runAnalysis had loaded; `first` keeps the
\* snapshots the first call left.  The call runs up to its first await.
RunAggregateAgain(k) ==
  /\ k \in 1..Len(tasks)
  /\ tasks[k].pc = "returned"
  /\ ~tasks[k].again
  /\ tasks' = SetTask(k, [tasks[k] EXCEPT !.pc = "cmFind", !.again = TRUE,
                                          !.first = metricsSnapshots[k]])
  /\ UNCHANGED <<projectRows, brandTable, promptRows, projReqs, extraction,
                 apiKey, brandRows, promptActive, runs,
                 promptResults, brandMentions, citations, metricsSnapshots,
                 reqs, sseClients, obs, faults>>

\* the update to `completed` returns (lines 147-159): onProgress is called
\* with the complete event and runAnalysis returns.  When client.write raises
\* runAnalysis rejects and the .catch of the route issues the update to `failed`.
RunSetCompleted(k) ==
  /\ k \in 1..Len(tasks)
  /\ tasks[k].pc = "setCompleted"
  /\ runs' = [runs EXCEPT ![k].status = "completed"]
  /\ \/ /\ obs' = written(k, CompleteEvent)
        /\ sseClients' = clientsAfter(k, CompleteEvent)
        /\ tasks' = SetTask(k, [tasks[k] EXCEPT !.pc = "returned"])
        /\ UNCHANGED faults
     \/ /\ sseClients[k] # "none"
        /\ CanFault
        /\ faults' = faults + 1
        /\ tasks' = SetTask(k, [tasks[k] EXCEPT !.pc = "markFailed", !.faulted = TRUE])
        /\ UNCHANGED <<obs, sseClients>>
  /\ UNCHANGED <<projectRows, brandTable, promptRows, projReqs, extraction,
                 apiKey, brandRows, promptActive, promptResults,
                 brandMentions, citations, metricsSnapshots, reqs>>

\* ------------------------- GET /api/analysis/:projectId/runs/:runId/stream
\* analysisRun.findUnique returns (routes/analysis.js lines 174-183)
StreamFindRun(o, k) ==
  /\ obs[o].pc = "idle"
  /\ obs' = [obs EXCEPT ![o] =
       IF k \in 1..Len(runs)
         THEN [@ EXCEPT !.pc = "found", !.runId = k, !.status = runs[k].status,
                        !.processed = runs[k].processedPrompts,
                        !.total = runs[k].totalPrompts]
         ELSE [@ EXCEPT !.pc = "notFound", !.runId = k]]
  /\ UNCHANGED <<projectRows, brandTable, promptRows, projReqs, extraction,
                 apiKey, brandRows, promptActive, runs,
                 promptResults, brandMentions, citations, metricsSnapshots,
                 reqs, tasks, sseClients, faults>>

\* the observer disconnects while the handler awaits analysisRun.findUnique
\* (lines 177-179): the 'close' event of the request is emitted before the
\* handler has attached its listener (line 212), so the listener never runs
StreamLost(o) ==
  /\ obs[o].pc = "found"
  /\ obs' = [obs EXCEPT ![o].pc = "lost"]
  /\ UNCHANGED <<projectRows, brandTable, promptRows, projReqs, extraction,
                 apiKey, brandRows, promptActive, runs,
                 promptResults, brandMentions, citations, metricsSnapshots,
                 reqs, tasks, sseClients, faults>>

\* the handler goes on after the await (lines 185-214): a completed run gets
\* the complete event and the stream ends, otherwise the stream gets the
\* connected event and is stored in the Map under the run id.  The handler
\* does not look at the state of the connection: the stream of an observer
\* that is gone already is written to and stored as well ("stale").
StreamRegister(o) ==
  /\ obs[o].pc \in {"found", "lost"}
  /\ IF obs[o].status = "completed"
       THEN /\ obs' = [obs EXCEPT ![o].pc = "ended", ![o].events = <<CompleteEvent>>]
            /\ UNCHANGED sseClients
       ELSE /\ obs' = [obs EXCEPT ![o].pc = IF obs[o].pc = "found" THEN "open"
                                                                  ELSE "stale",
                 ![o].events = <<[type |-> "connected", status |-> obs[o].status,
                                  processed |-> obs[o].processed,
                                  total |-> obs[o].total]>>,
                 ![o].replaced = sseClients[obs[o].runId]]
            /\ sseClients' = [sseClients EXCEPT ![obs[o].runId] = o]
  /\ UNCHANGED <<projectRows, brandTable, promptRows, projReqs, extraction,
                 apiKey, brandRows, promptActive, runs,
                 promptResults, brandMentions, citations, metricsSnapshots,
                 reqs, tasks, faults>>

\* the observer disconnects: req.on('close') (lines 212-214)
StreamClose(o) ==
  /\ obs[o].pc = "open"
  /\ obs' = [obs EXCEPT ![o].pc = "closed"]
  /\ sseClients' = [sseClients EXCEPT ![obs[o].runId] = "none"]
  /\ UNCHANGED <<projectRows, brandTable, promptRows, projReqs, extraction,
                 apiKey, brandRows, promptActive, runs,
                 promptResults, brandMentions, citations, metricsSnapshots,
                 reqs, tasks, faults>>

\* ------------------------------------------ GeminiService.analyzePrompt alone
\* The response texts and the brand lists analyzePrompt is applied to: every
\* text of up to MaxTextLen characters, every list of up to MaxBrands distinct
\* names (Brand has a unique index on projectId and name).  The name "a("
\* ends with a character that is not a word character and is special in a
\* pattern.
TextChars == {"a", "A", "b", " ", "("}
Texts == UNION {[1..n -> TextChars] : n \in 0..MaxTextLen}
Names == {<<"a">>, <<"A">>, <<"b">>, <<"a", "b">>, <<"a", "(">>}
NameLists ==
  {bs \in UNION {[1..n -> Names] : n \in 0..MaxBrands} :
     \A i, j \in 1..Len(bs) : i # j => bs[i] # bs[j]}

InitExtract ==
  /\ apiKey = TRUE
  /\ brandRows = BrandIds
  /\ promptActive = [p \in PromptIds |-> TRUE]
  /\ runs = <<>>
  /\ promptResults = [k \in RunIds |-> <<>>]
  /\ brandMentions = [k \in RunIds |-> <<>>]
  /\ citations = [k \in RunIds |-> <<>>]
  /\ metricsSnapshots = [k \in RunIds |-> <<>>]
  /\ reqs = [r \in ReqIds |-> IdleReq]
  /\ tasks = <<>>
  /\ sseClients = [k \in RunIds |-> "none"]
  /\ obs = [o \in ObsIds |-> IdleObs]
  /\ faults = 0
  /\ projectRows = <<>>
  /\ brandTable = <<>>
  /\ promptRows = <<>>
  /\ projReqs = IdleProjReqs
  /\ \E text \in Texts, bs \in NameLists :
       extraction = [NoExtraction EXCEPT !.pc = "input", !.text = text, !.brands = bs]

\* The grounding metadata analyzePrompt is applied to: no metadata, metadata
\* without groundingChunks, groundingChunks that is not a list, and every
\* list of up to MaxChunks chunks; a chunk is null, has no web entry, or has
\* a web entry with one of three uris (UriBad has no scheme) and no title or
\* one of two titles.
MaxChunks == 3
UriB == <<"h", "t", "t", "p", "s", ":", "/", "/", "b", ".", "i", "o">>
UriBad == <<"a", ".", "i", "o", "/", "x">>
Uris == {UriA, UriB, UriBad}
Chunks ==
  {[isNull |-> TRUE, web |-> FALSE, uri |-> <<>>, title |-> <<>>],
   [isNull |-> FALSE, web |-> FALSE, uri |-> <<>>, title |-> <<>>]}
    \cup [isNull : {FALSE}, web : {TRUE}, uri : Uris, title : {<<>>, <<"A">>, <<"B">>}]
ChunkLists == UNION {[1..n -> Chunks] : n \in 0..MaxChunks}
Metadatas ==
  {NoMetadata,
   [defined |-> TRUE, kind |-> "undefined", groundingChunks |-> <<>>],
   [defined |-> TRUE, kind |-> "number", groundingChunks |-> <<>>]}
    \cup {Metadata(chunks) : chunks \in ChunkLists}

InitCitations ==
  /\ apiKey = TRUE
  /\ brandRows = BrandIds
  /\ promptActive = [p \in PromptIds |-> TRUE]
  /\ runs = <<>>
  /\ promptResults = [k \in RunIds |-> <<>>]
  /\ brandMentions = [k \in RunIds |-> <<>>]
  /\ citations = [k \in RunIds |-> <<>>]
  /\ metricsSnapshots = [k \in RunIds |-> <<>>]
  /\ reqs = [r \in ReqIds |-> IdleReq]
  /\ tasks = <<>>
  /\ sseClients = [k \in RunIds |-> "none"]
  /\ obs = [o \in ObsIds |-> IdleObs]
  /\ faults = 0
  /\ projectRows = <<>>
  /\ brandTable = <<>>
  /\ promptRows = <<>>
  /\ projReqs = IdleProjReqs
  /\ \E metadata \in Metadatas :
       extraction = [NoExtraction EXCEPT !.pc = "input", !.text = TextBoth,
                                         !.brands = <<Acme, Globex>>,
                                         !.groundingMetadata = metadata]

\* analyzePrompt(prompt, brands) when the provider returns the text and the
\* grounding metadata (lines 321-373); `threw` keeps whether
\* extractBrandMentions raised inside it, `citationsThrew` whether
\* extractCitations did
Extract ==
  /\ extraction.pc = "input"
  /\ extraction' =
       [extraction EXCEPT
          !.pc = "done",
          !.threw = extractBrandMentionsThrows(extraction.text, extraction.brands),
          !.citationsThrew = extractCitationsThrows(extraction.groundingMetadata),
          !.result = analyzePrompt([kind |-> "ok", text |-> extraction.text,
                                    groundingMetadata |-> extraction.groundingMetadata,
                                    message |-> ""],
                                   extraction.brands)]
  /\ UNCHANGED <<apiKey, brandRows, promptActive, runs, promptResults,
                 brandMentions, citations, metricsSnapshots, reqs, tasks,
                 sseClients, obs, faults, projectRows, brandTable, promptRows,
                 projReqs>>

\* ------------------------------------------ GeminiService.analyzeSentiment
\* the lexicons of analyzeSentiment (lines 495-510)
positivePatterns ==
  <<<<"b", "e", "s", "t">>,
    <<"e", "x", "c", "e", "l", "l", "e", "n", "t">>,
    <<"g", "r", "e", "a", "t">>,
    <<"r", "e", "c", "o", "m", "m", "e", "n", "d", "e", "d">>,
    <<"l", "e", "a", "d", "i", "n", "g">>,
    <<"t", "o", "p">>,
    <<"p", "o", "w", "e", "r", "f", "u", "l">>,
    <<"p", "o", "p", "u", "l", "a", "r">>,
    <<"r", "e", "l", "i", "a", "b", "l", "e">>,
    <<"t", "r", "u", "s", "t", "e", "d">>,
    <<"i", "n", "n", "o", "v", "a", "t", "i", "v", "e">>,
    <<"e", "a", "s", "y", " ", "t", "o", " ", "u", "s", "e">>,
    <<"i", "n", "t", "u", "i", "t", "i", "v", "e">>,
    <<"r", "o", "b", "u", "s", "t">>,
    <<"c", "o", "m", "p", "r", "e", "h", "e", "n", "s", "i", "v", "e">>,
    <<"o", "u", "t", "s", "t", "a", "n", "d", "i", "n", "g">>,
    <<"i", "m", "p", "r", "e", "s", "s", "i", "v", "e">>,
    <<"e", "x", "c", "e", "p", "t", "i", "o", "n", "a", "l">>,
    <<"s", "u", "p", "e", "r", "i", "o", "r">>,
    <<"f", "a", "v", "o", "r", "i", "t", "e">>,
    <<"p", "r", "e", "f", "e", "r", "r", "e", "d">>,
    <<"h", "i", "g", "h", "l", "y", " ", "r", "a", "t", "e", "d">>,
    <<"w", "e", "l", "l", "-", "k", "n", "o", "w", "n">>,
    <<"i", "n", "d", "u", "s", "t", "r", "y", " ", "l", "e", "a", "d", "e", "r">>,
    <<"m", "a", "r", "k", "e", "t", " ", "l", "e", "a", "d", "e", "r">>,
    <<"s", "t", "a", "n", "d", "s", " ", "o", "u", "t">>,
    <<"e", "x", "c", "e", "l", "s">>,
    <<"s", "h", "i", "n", "e", "s">>,
    <<"i", "d", "e", "a", "l">>,
    <<"p", "e", "r", "f", "e", "c", "t", " ", "f", "o", "r">>>>

negativePatterns ==
  <<<<"e", "x", "p", "e", "n", "s", "i", "v", "e">>,
    <<"c", "o", "m", "p", "l", "e", "x">>,
    <<"d", "i", "f", "f", "i", "c", "u", "l", "t">>,
    <<"l", "i", "m", "i", "t", "e", "d">>,
    <<"l", "a", "c", "k", "i", "n", "g">>,
    <<"p", "o", "o", "r">>,
    <<"s", "l", "o", "w">>,
    <<"o", "u", "t", "d", "a", "t", "e", "d">>,
    <<"c", "o", "m", "p", "l", "i", "c", "a", "t", "e", "d">>,
    <<"o", "v", "e", "r", "p", "r", "i", "c", "e", "d">>,
    <<"b", "a", "s", "i", "c">>,
    <<"f", "r", "u", "s", "t", "r", "a", "t", "i", "n", "g">>,
    <<"c", "l", "u", "n", "k", "y">>,
    <<"s", "t", "e", "e", "p", " ", "l", "e", "a", "r", "n", "i", "n", "g", " ", "c", "u", "r", "v", "e">>,
    <<"c", "o", "n", "f", "u", "s", "i", "n", "g">>,
    <<"u", "n", "r", "e", "l", "i", "a", "b", "l", "e">>,
    <<"d", "i", "s", "a", "p", "p", "o", "i", "n", "t", "i", "n", "g">>,
    <<"w", "o", "r", "s", "t">>,
    <<"a", "v", "o", "i", "d">>,
    <<"i", "s", "s", "u", "e", "s">>,
    <<"p", "r", "o", "b", "l", "e", "m", "s">>,
    <<"b", "u", "g", "s">>,
    <<"c", "r", "a", "s", "h", "e", "s">>,
    <<"n", "o", "t", " ", "r", "e", "c", "o", "m", "m", "e", "n", "d", "e", "d">>>>

\* String.prototype.includes
includes(text, pattern) ==
  \E pos \in 1..(Len(text) - Len(pattern) + 1) :
    \A j \in 1..Len(pattern) : text[pos + j - 1] = pattern[j]

\* String.prototype.toLowerCase
lowerCase(text) == [j \in 1..Len(text) |-> toLowerCase(text[j])]

\* the number of patterns of the list that the context includes (lines
\* 516-529)
matched(lowerContext, patterns) ==
  Cardinality({k \in 1..Len(patterns) : includes(lowerContext, patterns[k])})

Max(a, b) == IF a >= b THEN a ELSE b

\* a score normalized by the number of matches of both lists
normalizeByTotal(matchedPositive, matchedNegative) ==
  IF matchedPositive + matchedNegative > 0
    THEN <<matchedPositive - matchedNegative, matchedPositive + matchedNegative>>
    ELSE <<0, 1>>

\* normalizedScore (lines 532-535) as the ratio <<numerator, denominator>>:
\* score / Math.max(matchedPositive, matchedNegative, 1) clamped to [-1, 1],
\* 0 without a match
normalize(matchedPositive, matchedNegative) ==
  IF matchedPositive + matchedNegative > 0
    THEN LET score == matchedPositive - matchedNegative
             den == Max(Max(matchedPositive, matchedNegative), 1)
         IN  IF score > den THEN <<1, 1>>
             ELSE IF score < -den THEN <<-1, 1>>
             ELSE <<score, den>>
    ELSE <<0, 1>>

\* the label of a normalized score (lines 537-544): the thresholds are 0.2
\* and -0.2, that is 1/5 and -1/5
labelOf(normalizedScore) ==
  IF 5 * normalizedScore[1] > normalizedScore[2] THEN "positive"
  ELSE IF 5 * normalizedScore[1] < -normalizedScore[2] THEN "negative"
  ELSE "neutral"

\* analyzeSentiment(context, brand), lines 492-549
analyzeSentiment(context) ==
  LET lowerContext == lowerCase(context)
      normalizedScore == normalize(matched(lowerContext, positivePatterns),
                                   matched(lowerContext, negativePatterns))
  IN  [sentiment |-> labelOf(normalizedScore), score |-> normalizedScore]

\* The contexts analyzeSentiment is applied to: up to MaxFragments fragments
\* put together, with phrases of both lexicons in either case, a phrase of
\* one lexicon inside a phrase of the other, and text that is in no lexicon.
MaxFragments == 3
Fragments ==
  <<<<"b", "e", "s", "t">>,
    <<"T", "O", "P">>,
    <<"s", "l", "o", "w">>,
    <<"n", "o", "t", " ">>,
    <<"r", "e", "c", "o", "m", "m", "e", "n", "d", "e", "d">>,
    <<"c", "l", "u", "n", "k", "y">>,
    <<" ">>,
    <<"x">>>>

RECURSIVE concat(_, _)
concat(fs, i) == IF i > Len(fs) THEN <<>> ELSE Fragments[fs[i]] \o concat(fs, i + 1)

Contexts ==
  {concat(fs, 1) : fs \in UNION {[1..n -> 1..Len(Fragments)] : n \in 0..MaxFragments}}

InitSentiment ==
  /\ apiKey = TRUE
  /\ brandRows = BrandIds
  /\ promptActive = [p \in PromptIds |-> TRUE]
  /\ runs = <<>>
  /\ promptResults = [k \in RunIds |-> <<>>]
  /\ brandMentions = [k \in RunIds |-> <<>>]
  /\ citations = [k \in RunIds |-> <<>>]
  /\ metricsSnapshots = [k \in RunIds |-> <<>>]
  /\ reqs = [r \in ReqIds |-> IdleReq]
  /\ tasks = <<>>
  /\ sseClients = [k \in RunIds |-> "none"]
  /\ obs = [o \in ObsIds |-> IdleObs]
  /\ faults = 0
  /\ projectRows = <<>>
  /\ brandTable = <<>>
  /\ promptRows = <<>>
  /\ projReqs = IdleProjReqs
  /\ \E context \in Contexts :
       extraction = [NoExtraction EXCEPT !.pc = "context", !.text = context]

\* analyzeSentiment is called on the context and returns
Sentiment ==
  /\ extraction.pc = "context"
  /\ extraction' = [extraction EXCEPT !.pc = "scored",
                                      !.sentiment = analyzeSentiment(extraction.text)]
  /\ UNCHANGED <<apiKey, brandRows, promptActive, runs, promptResults,
                 brandMentions, citations, metricsSnapshots, reqs, tasks,
                 sseClients, obs, faults, projectRows, brandTable, promptRows,
                 projReqs>>

\* ------------------------------------------- PromptGenerator and projects
\* this.templates of PromptGenerator: for each intent type, whether each of
\* its templates holds the {brand} placeholder
templates ==
  [commercial |-> [t \in 1..10 |-> FALSE],
   comparison |-> [t \in 1..5 |-> FALSE],
   alternative |-> [t \in 1..5 |-> TRUE],
   specific |-> [t \in 1..10 |-> FALSE]]

\* the default of options.intentTypes
DefaultIntentTypes == <<"commercial", "comparison", "alternative", "specific">>

\* the count that the project creation route passes to generate
PromptCount == 25

\* prompts.push({ id: id++, text, intentType }) with typePrompts++; the text
\* is kept as the template and the values that replace its placeholders
pushPrompt(st, intentType, t, brand, category) ==
  [prompts |-> Append(st.prompts,
                 [id |-> Len(st.prompts) + 1, intentType |-> intentType,
                  text |-> [template |-> t, brand |-> brand, category |-> category]]),
   typePrompts |-> st.typePrompts + 1]

\* `for (const brand of brands)` of generate from brand b on
RECURSIVE forBrands(_, _, _, _, _, _, _, _)
forBrands(st, intentType, t, category, brands, b, promptsPerType, count) ==
  IF b > Len(brands) \/ st.typePrompts >= promptsPerType \/ Len(st.prompts) >= count
    THEN st
    ELSE forBrands(pushPrompt(st, intentType, t, <<brands[b]>>, category),
                   intentType, t, category, brands, b + 1, promptsPerType, count)

\* `for (const template of templates)` of generate from template t on
RECURSIVE forTemplates(_, _, _, _, _, _, _)
forTemplates(st, intentType, t, category, brands, promptsPerType, count) ==
  IF \/ t > Len(templates[intentType])
     \/ st.typePrompts >= promptsPerType
     \/ Len(st.prompts) >= count
    THEN st
    ELSE forTemplates(
           IF templates[intentType][t]
             THEN forBrands(st, intentType, t, category, brands, 1, promptsPerType, count)
             ELSE pushPrompt(st, intentType, t, <<>>, category),
           intentType, t + 1, category, brands, promptsPerType, count)

\* `for (const intentType of intentTypes)` of generate from type k on
RECURSIVE forIntentTypes(_, _, _, _, _, _, _)
forIntentTypes(prompts, intentTypes, k, category, brands, promptsPerType, count) ==
  IF k > Len(intentTypes) THEN prompts
  ELSE forIntentTypes(
         forTemplates([prompts |-> prompts, typePrompts |-> 0], intentTypes[k], 1,
                      category, brands, promptsPerType, count).prompts,
         intentTypes, k + 1, category, brands, promptsPerType, count)

\* PromptGenerator.generate(category, brands, { count, intentTypes });
\* promptsPerType is Math.ceil(count / intentTypes.length)
generate(category, brands, count, intentTypes) ==
  LET promptsPerType == (count + Len(intentTypes) - 1) \div Len(intentTypes)
      prompts == forIntentTypes(<<>>, intentTypes, 1, category, brands,
                                promptsPerType, count)
  IN  SubSeq(prompts, 1, IF Len(prompts) < count THEN Len(prompts) ELSE count)

\* The request bodies of POST /api/projects: name, category and userBrand
\* are strings, <<>> when missing; competitors is a list of up to
\* MaxCompetitors names, which may repeat and may hold the user brand.
MaxProjects == 2
MaxCompetitors == 2
MaxBrandRows == 4
Crm == <<"C", "R", "M">>
BodyNames == {Acme, Globex}
ProjectBodies ==
  [name : {<<>>, Crm}, category : {<<>>, Crm}, userBrand : {<<>>, Acme, Globex},
   competitors : UNION {[1..n -> BodyNames] : n \in 0..MaxCompetitors}]

\* the rows of the Brand table that exist
liveBrands == {b \in 1..Len(brandTable) : ~brandTable[b].deleted}

\* [userBrand, ...competitors.filter(c => c !== userBrand)]
allBrandsOf(body) ==
  <<body.userBrand>> \o SelectSeq(body.competitors, LAMBDA c : c # body.userBrand)

\* allBrands.map(brandName => ({ name, isUserBrand: brandName === userBrand }))
newBrands(projectId, allBrands, userBrand) ==
  [k \in 1..Len(allBrands) |->
     [projectId |-> projectId, name |-> allBrands[k],
      isUserBrand |-> (allBrands[k] = userBrand), deleted |-> FALSE]]

\* POST /api/projects up to the return of project.create (lines 78-107): 400
\* for a missing field; the nested create is one transaction, which the
\* unique index on Brand(projectId, name) makes fail for a repeated name
ProjCreate(body) ==
  /\ projReqs.create.pc \in {"idle", "done"}
  /\ LET allBrands == allBrandsOf(body)
         id == Len(projectRows) + 1
     IN  IF body.name = <<>> \/ body.category = <<>> \/ body.userBrand = <<>>
           THEN /\ projReqs' = [projReqs EXCEPT !.create =
                                  [IdleProjReqs.create EXCEPT !.pc = "done", !.code = 400]]
                /\ UNCHANGED <<projectRows, brandTable>>
         ELSE IF \E j, k \in 1..Len(allBrands) : j # k /\ allBrands[j] = allBrands[k]
           THEN /\ projReqs' = [projReqs EXCEPT !.create =
                                  [IdleProjReqs.create EXCEPT !.pc = "done", !.code = 500]]
                /\ UNCHANGED <<projectRows, brandTable>>
         ELSE /\ Len(projectRows) < MaxProjects
              /\ Len(brandTable) + Len(allBrands) <= MaxBrandRows
              /\ projectRows' = Append(projectRows,
                   [name |-> body.name, category |-> body.category,
                    userBrand |-> body.userBrand])
              /\ brandTable' = brandTable \o newBrands(id, allBrands, body.userBrand)
              /\ projReqs' = [projReqs EXCEPT !.create =
                   [pc |-> "savePrompts", code |-> 0, projectId |-> id,
                    category |-> body.category, allBrands |-> allBrands,
                    generated |-> 0]]
  /\ UNCHANGED promptRows
  /\ UNCHANGED runVars

\* promptGenerator.generate and the return of prompt.createMany (lines 109-119)
ProjSavePrompts ==
  /\ projReqs.create.pc = "savePrompts"
  /\ LET c == projReqs.create
         generatedPrompts == generate(c.category, c.allBrands, PromptCount,
                                      DefaultIntentTypes)
     IN  /\ promptRows' = promptRows \o
              [n \in 1..Len(generatedPrompts) |->
                 [projectId |-> c.projectId, text |-> generatedPrompts[n].text,
                  intentType |-> generatedPrompts[n].intentType]]
         /\ projReqs' = [projReqs EXCEPT !.create.pc = "fetch",
                                         !.create.generated = Len(generatedPrompts)]
  /\ UNCHANGED <<projectRows, brandTable>>
  /\ UNCHANGED runVars

\* project.findUnique returns and the route answers 201 (lines 121-133)
ProjRespond ==
  /\ projReqs.create.pc = "fetch"
  /\ projReqs' = [projReqs EXCEPT !.create.pc = "done", !.create.code = 201]
  /\ UNCHANGED <<projectRows, brandTable, promptRows>>
  /\ UNCHANGED runVars

\* POST /api/projects/:id/brands (lines 181-205): 400 without a name, 400
\* when the unique index rejects the name, the error handler when the
\* project does not exist; the brand is created with isUserBrand false
AddBrand(projectId, name) ==
  /\ projReqs.add.pc \in {"idle", "done"}
  /\ IF name = <<>>
       THEN /\ projReqs' = [projReqs EXCEPT !.add = [pc |-> "done", code |-> 400]]
            /\ UNCHANGED brandTable
     ELSE IF projectId > Len(projectRows)
       THEN /\ projReqs' = [projReqs EXCEPT !.add = [pc |-> "done", code |-> 500]]
            /\ UNCHANGED brandTable
     ELSE IF \E b \in liveBrands :
               brandTable[b].projectId = projectId /\ brandTable[b].name = name
       THEN /\ projReqs' = [projReqs EXCEPT !.add = [pc |-> "done", code |-> 400]]
            /\ UNCHANGED brandTable
     ELSE /\ Len(brandTable) < MaxBrandRows
          /\ brandTable' = Append(brandTable,
               [projectId |-> projectId, name |-> name, isUserBrand |-> FALSE,
                deleted |-> FALSE])
          /\ projReqs' = [projReqs EXCEPT !.add = [pc |-> "done", code |-> 201]]
  /\ UNCHANGED <<projectRows, promptRows>>
  /\ UNCHANGED runVars

\* the isUserBrand test of the delete route left out
protectsNoBrand(brandId) == FALSE

\* brand?.isUserBrand (line 217) for the row that brand.findUnique returns,
\* null when there is none
protectsUserBrand(brandId) ==
  brandId \in liveBrands /\ brandTable[brandId].isUserBrand

\* DELETE /api/projects/:id/brands/:brandId up to the return of
\* brand.findUnique (lines 211-219): 400 for the user brand.  Brand ids are
\* generated at creation, so a request names the id of a row that exists or
\* existed, or an id that no row ever has (0).
DelFind(brandId) ==
  /\ projReqs.del.pc \in {"idle", "done"}
  /\ brandId <= Len(brandTable)
  /\ projReqs' = [projReqs EXCEPT !.del =
       IF protectsUserBrand(brandId)
         THEN [pc |-> "done", code |-> 400, brandId |-> brandId]
         ELSE [pc |-> "delete", code |-> 0, brandId |-> brandId]]
  /\ UNCHANGED <<projectRows, brandTable, promptRows>>
  /\ UNCHANGED runVars

\* brand.delete returns or raises for a row that does not exist (lines
\* 221-228)
DelDelete ==
  /\ projReqs.del.pc = "delete"
  /\ LET b == projReqs.del.brandId
     IN  IF b \in liveBrands
           THEN /\ brandTable' = [brandTable EXCEPT ![b].deleted = TRUE]
                /\ projReqs' = [projReqs EXCEPT !.del.pc = "done", !.del.code = 200]
           ELSE /\ projReqs' = [projReqs EXCEPT !.del.pc = "done", !.del.code = 500]
                /\ UNCHANGED brandTable
  /\ UNCHANGED <<projectRows, promptRows>>
  /\ UNCHANGED runVars

\* ------------------------------------------------------ the specifications
\* the POST /:projectId/run handlers of the requests R
StartSteps(R) ==
  \/ \E r \in R, p \in ProjectIds : ReqFindProject(r, p)
  \/ \E r \in R : ReqFindRunning(r) \/ ReqCreate(r)

\* the steps of runAnalysis when no call raises
RunSteps(k) ==
  \/ RunFindProject(k) \/ RunSetProcessing(k) \/ RunDelay(k)
  \/ \E outcome \in ProviderOutcomes : RunQuery(k, outcome)
  \/ RunCreateResult(k) \/ RunCreateMention(k) \/ RunCreateCitation(k)
  \/ RunUpdateProgress(k)
  \/ RunCmFind(k) \/ RunCmUpsert(k) \/ RunCmAggregate(k)
  \/ RunCmFindSnapshots(k) \/ RunCmUpdateShare(k) \/ RunSetCompleted(k)

\* the steps that a raised exception leads to
FaultSteps(k) ==
  \/ RunTryFault(k) \/ RunCreateErrorResult(k)
  \/ RunFault(k) \/ RunMarkFailed(k) \/ RunMarkFailedFault(k)

StreamSteps(o) ==
  \/ \E k \in RunIds : StreamFindRun(o, k)
  \/ StreamRegister(o) \/ StreamClose(o)

\* Spec: simultaneous start requests and their runs, every call returning.
Next ==
  \/ StartSteps(ReqIds)
  \/ \E k \in RunIds : RunSteps(k)

Spec == Init /\ [][Next]_vars

\* SpecPrompts: one start request and its run while prompts are activated and
\* deactivated, every call returning.
FaultReqs == {"r1"}

NextPrompts ==
  \/ StartSteps(FaultReqs)
  \/ \E p \in PromptIds, a \in BOOLEAN : UpdatePrompt(p, a)
  \/ \E k \in RunIds : RunSteps(k)

SpecPrompts == Init /\ [][NextPrompts]_vars

\* the observer of the specifications that have one
OneObs == {"o1"}

\* SpecFaults: one start request, its run with an observer on the progress
\* stream, and up to MaxFaults calls that raise.
NextFaults ==
  \/ StartSteps(FaultReqs)
  \/ \E r \in FaultReqs : ReqFault(r)
  \/ \E k \in RunIds : RunSteps(k) \/ FaultSteps(k)
  \/ \E o \in OneObs : StreamSteps(o)

SpecFaults == Init /\ [][NextFaults]_vars

\* SpecAggregate: one start request and its run, every call returning, and a
\* second call of calculateMetrics after the run.
NextAggregate ==
  \/ StartSteps(FaultReqs)
  \/ \E k \in RunIds : RunSteps(k) \/ RunAggregateAgain(k)

SpecAggregate == Init /\ [][NextAggregate]_vars

\* SpecBrands: one start request and its run while a competitor brand is
\* removed from the project; no other call raises than those that refer to
\* the removed brand.
NextBrands ==
  \/ StartSteps(FaultReqs)
  \/ \E b \in BrandIds : DeleteBrand(b)
  \/ \E k \in RunIds : RunSteps(k) \/ RunCreateErrorResult(k) \/ RunMarkFailed(k)

SpecBrands == Init /\ [][NextBrands]_vars

\* SpecExtract: analyzePrompt applied to one provider response and one brand
\* list.
NextExtract == Extract

SpecExtract == InitExtract /\ [][NextExtract]_vars

\* SpecCitations: analyzePrompt applied to one provider response with each
\* grounding metadata of Metadatas.
NextCitations == Extract

SpecCitations == InitCitations /\ [][NextCitations]_vars

\* SpecSentiment: analyzeSentiment applied to each context of Contexts.
NextSentiment == Sentiment

SpecSentiment == InitSentiment /\ [][NextSentiment]_vars

\* SpecProjects: projects are created, brands are added to them and deleted.
NextProjects ==
  \/ \E body \in ProjectBodies : ProjCreate(body)
  \/ ProjSavePrompts
  \/ ProjRespond
  \/ \E projectId \in 1..MaxProjects, name \in BodyNames \cup {<<>>} :
       AddBrand(projectId, name)
  \/ \E brandId \in 0..MaxBrandRows : DelFind(brandId)
  \/ DelDelete

InitProjects == Init /\ apiKey /\ \A p \in PromptIds : promptActive[p]

SpecProjects == InitProjects /\ [][NextProjects]_vars

\* SpecStream: one start request and its run, an observer that connects to the
\* progress stream and disconnects at any time; persistence never raises, the
\* only calls that may raise are the writes to a stream.
NextStream ==
  \/ StartSteps(FaultReqs)
  \/ \E k \in RunIds : RunSteps(k) \/ RunCreateErrorResult(k) \/ RunMarkFailed(k)
  \/ \E o \in OneObs : StreamSteps(o) \/ StreamLost(o)

SpecStream == Init /\ [][NextStream]_vars

\* SpecObservers: one start request and its run, two observers that connect
\* to the progress stream and disconnect at any time; no call raises.
InitObservers ==
  /\ apiKey = TRUE
  /\ brandRows = BrandIds
  /\ promptActive = [p \in PromptIds |-> TRUE]
  /\ runs = <<>>
  /\ promptResults = [k \in RunIds |-> <<>>]
  /\ brandMentions = [k \in RunIds |-> <<>>]
  /\ citations = [k \in RunIds |-> <<>>]
  /\ metricsSnapshots = [k \in RunIds |-> <<>>]
  /\ reqs = [r \in ReqIds |-> IdleReq]
  /\ tasks = <<>>
  /\ sseClients = [k \in RunIds |-> "none"]
  /\ obs = [o \in ObsIds |-> IdleObs]
  /\ faults = MaxFaults
  /\ projectRows = <<>>
  /\ brandTable = <<>>
  /\ promptRows = <<>>
  /\ projReqs = IdleProjReqs
  /\ extraction = NoExtraction

NextObservers ==
  \/ StartSteps(FaultReqs)
  \/ \E k \in RunIds : RunSteps(k)
  \/ \E o \in ObsIds : StreamSteps(o)

SpecObservers == InitObservers /\ [][NextObservers]_vars

\* SpecLive: one start request and its run, one observer, no call raises.
\* The event loop runs every continuation whose awaited call has returned:
\* the steps of the start handler, of the run and of the stream handler after
\* its await are weakly fair.  The arrival of a stream request and the
\* disconnection of the observer are up to the observer.
NextLive ==
  \/ StartSteps(FaultReqs)
  \/ \E k \in RunIds : RunSteps(k)
  \/ \E o \in OneObs : StreamSteps(o)

SpecLive ==
  /\ InitObservers
  /\ [][NextLive]_vars
  /\ WF_vars(StartSteps(FaultReqs))
  /\ WF_vars(\E k \in RunIds : RunSteps(k))
  /\ WF_vars(\E o \in OneObs : StreamRegister(o))

\* ================================================================== claims
Finished(t) == t.pc \in {"returned", "handled", "unhandled"}
Terminal(status) == status \in {"completed", "failed"}
processingRuns(p) ==
  {k \in 1..Len(runs) : runs[k].projectId = p /\ runs[k].status = "processing"}

\* C1: in every reachable state each project has at most one AnalysisRun whose
\* status is `processing`.
AtMostOneProcessing ==
  \A p \in ProjectIds : Cardinality(processingRuns(p)) <= 1

\* the rows of run k for the prompt at index j of the list the run works on
resultsFor(k, j) ==
  {n \in 1..Len(promptResults[k]) : promptResults[k][n].promptId = tasks[k].prompts[j]}

\* C2: for every run and every prompt the run has handled, exactly one
\* PromptResult row exists for that (run, prompt) pair.  The prompts before
\* index i of the loop are the handled ones.
OneResultPerHandledPrompt ==
  \A k \in 1..Len(tasks) :
    \A j \in 1..tasks[k].i : Cardinality(resultsFor(k, j)) = 1

\* C3: a PromptResult whose error field is set has no BrandMention rows and
\* no Citation rows.
ErrorResultHasNoRows ==
  \A k \in RunIds : \A n \in 1..Len(promptResults[k]) :
    hasError(promptResults[k][n]) =>
      /\ \A x \in 1..Len(brandMentions[k]) : brandMentions[k][x].promptResultId # n
      /\ \A c \in 1..Len(citations[k]) : citations[k][c].promptResultId # n

\* C4: after each prompt of a run is handled the processedPrompts counter is
\* one greater than before and one progress notification was emitted: between
\* two prompts, and after the last, the counter equals the number of handled
\* prompts and the notifications carried 1, 2, ..., that number.
ProgressCountsEveryPrompt ==
  \A k \in 1..Len(tasks) :
    tasks[k].pc \in {"delay", "cmFind"} =>
      /\ runs[k].processedPrompts = tasks[k].i
      /\ tasks[k].progress = [j \in 1..tasks[k].i |-> j]

statusRank(status) ==
  CASE status = "pending" -> 0
    [] status = "processing" -> 1
    [] OTHER -> 2

\* C5: the status of a run never moves backwards in the order
\* pending < processing < {completed, failed}, and a run that reached
\* completed or failed never changes status again.
StatusOnlyMovesForward ==
  [][\A k \in 1..Len(runs) :
       /\ statusRank(runs'[k].status) >= statusRank(runs[k].status)
       /\ Terminal(runs[k].status) => runs'[k].status = runs[k].status]_vars

\* C6: whenever the status of a run is `failed`, no MetricsSnapshot row exists
\* for that run.
FailedRunHasNoSnapshot ==
  \A k \in 1..Len(runs) : runs[k].status = "failed" => metricsSnapshots[k] = <<>>

\* C7: when provider calls fail while every other call returns, the run
\* handles every prompt of its list in order and ends `completed`, never
\* `failed`; the failure shows only as the error of that prompt's PromptResult.
\* As long as no call of the run other than the provider's has raised
\* (faulted is false), the run is on no failure path, has a next step until
\* its end, its rows follow the prompt list, a row has an error exactly when
\* the provider call of its prompt raised, and at its end the run is
\* completed with one row per prompt.
ProviderFailureDoesNotFailRun ==
  \A k \in 1..Len(tasks) :
    LET t == tasks[k]
        rows == promptResults[k]
    IN  ~t.faulted =>
          /\ runs[k].status # "failed"
          /\ t.pc \notin {"createErrorResult", "markFailed", "handled", "unhandled"}
          /\ ~Finished(t) => ENABLED RunSteps(k)
          /\ [n \in 1..Len(rows) |-> rows[n].promptId] = SubSeq(t.prompts, 1, Len(rows))
          /\ \A n \in 1..Len(rows) : hasError(rows[n]) <=> t.outcomes[n] = "raise"
          /\ Finished(t) => runs[k].status = "completed" /\ Len(rows) = Len(t.prompts)

\* C7 witness: a run ended completed after the provider call of its first
\* prompt raised and the call of its second prompt returned.
CompletedAfterProviderFailure ==
  \E k \in 1..Len(tasks) :
    /\ tasks[k].pc = "returned"
    /\ ~tasks[k].faulted
    /\ runs[k].status = "completed"
    /\ tasks[k].outcomes = <<"raise", "ok">>
    /\ Len(promptResults[k]) = 2

\* C8: every run eventually reaches `completed` or `failed`.  Stated on the
\* end of the background work: once runAnalysis and the .catch handler of the
\* route have run to their end, no step of the run is left, so the status the
\* run has then is the status it keeps.
FinishedRunIsTerminal ==
  \A k \in 1..Len(tasks) : Finished(tasks[k]) => Terminal(runs[k].status)

\* C9: a start request that violates a precondition (project not found, no
\* active prompts, missing provider credentials, a run of the project already
\* processing) is rejected by the handler step that finds the violation,
\* creates no AnalysisRun row and starts no background work; a rejection
\* because of a processing run carries the id of a processing run of the
\* project.
RejectedStartCreatesNothing ==
  [][\A r \in ReqIds :
       LET before == reqs[r]
           after == reqs'[r]
           rejected == before.pc # "done" /\ after.pc = "done" /\ after.code # 202
       IN  /\ (before.pc = "idle" /\ after.pc # "idle") =>
                /\ ~ProjectExists(after.projectId) => rejected /\ after.code = 404
                /\ (ProjectExists(after.projectId) /\ Len(activePrompts) = 0) =>
                     rejected /\ after.code = 400
                /\ (ProjectExists(after.projectId) /\ Len(activePrompts) # 0 /\ ~apiKey) =>
                     rejected /\ after.code = 500
           /\ (before.pc = "findRunning" /\ after.pc # "findRunning") =>
                /\ processingRuns(before.projectId) # {} => rejected /\ after.code = 400
                /\ rejected => after.runId \in processingRuns(before.projectId)
           /\ rejected =>
                /\ runs' = runs
                /\ tasks' = tasks
                /\ UNCHANGED <<promptResults, brandMentions, citations, metricsSnapshots>>
    ]_vars

\* C9 witness: a start request was rejected with the id of the run that was
\* processing.
RejectedWithRunningRun ==
  \E r \in ReqIds :
    /\ reqs[r].pc = "done"
    /\ reqs[r].code = 400
    /\ reqs[r].runId \in 1..Len(runs)

\* C10: analyzePrompt never throws to its caller: the catch block of
\* runAnalysis is entered only by a call that raised there, and when the
\* provider call raises the result has success = false, the error message,
\* no citation and one mention record per brand with mentioned = false and a
\* null position.
AnalyzeAlwaysReturns ==
  \A k \in 1..Len(tasks) :
    LET t == tasks[k]
    IN  /\ t.pc = "createErrorResult" => t.faulted
        /\ t.pc = "createResult" =>
             /\ ~t.result.threw
             /\ t.outcomes[Len(t.outcomes)] = "raise" =>
                  /\ ~t.result.success
                  /\ t.result.error # ""
                  /\ \E o \in ProviderOutcomes :
                       o.kind = "raise" /\ o.message = t.result.error
                  /\ t.result.citations = <<>>
                  /\ Len(t.result.mentions) = Len(Brands)
                  /\ \A j \in 1..Len(Brands) :
                       /\ t.result.mentions[j].brand = Brands[j]
                       /\ ~t.result.mentions[j].mentioned
                       /\ t.result.mentions[j].position = 0

\* C10 witness: analyzePrompt returned to runAnalysis after the provider call
\* raised.
ReturnedAfterProviderRaise ==
  \E k \in 1..Len(tasks) :
    /\ tasks[k].pc = "createResult"
    /\ tasks[k].outcomes[Len(tasks[k].outcomes)] = "raise"

\* C11: for every channel registered for a run the complete event is the last
\* event written to it: the step that writes complete ends the channel and
\* removes it from the registry, and no event is written to a channel that
\* has ended or whose observer has disconnected.
CompleteIsLastEvent ==
  [][\A o \in ObsIds :
       /\ obs[o].pc \in {"lost", "stale", "closed", "ended"} =>
            obs'[o].events = obs[o].events
       /\ (obs'[o].events # obs[o].events
             /\ obs'[o].events[Len(obs'[o].events)].type = "complete") =>
            /\ obs'[o].pc = "ended"
            /\ \A k \in RunIds : sseClients'[k] # o
    ]_vars

\* C12: an observer that connects to or disconnects from the progress stream
\* leaves the execution of the run unchanged.  With persistence working, a
\* run without an observer stores one PromptResult per prompt in list order,
\* with an error exactly for the prompts whose provider call raised, counts
\* every prompt, is never failed and returns completed with one snapshot per
\* brand; the same has to hold whatever the observer does.
ObserverLeavesRunUnchanged ==
  \A k \in 1..Len(tasks) :
    LET t == tasks[k]
        rows == promptResults[k]
    IN  /\ runs[k].status # "failed"
        /\ Len(rows) <= Len(t.outcomes)
        /\ [n \in 1..Len(rows) |-> rows[n].promptId] = SubSeq(t.prompts, 1, Len(rows))
        /\ \A n \in 1..Len(rows) : hasError(rows[n]) <=> t.outcomes[n] = "raise"
        /\ t.pc \in {"delay", "cmFind"} => runs[k].processedPrompts = t.i
        /\ Finished(t) =>
             /\ t.pc = "returned"
             /\ runs[k].status = "completed"
             /\ Len(metricsSnapshots[k]) = Len(Brands)

\* the snapshots of run k for brand b
snapshotsOf(k, b) ==
  {n \in 1..Len(metricsSnapshots[k]) : metricsSnapshots[k][n].brandId = b}

\* C13: calling calculateMetrics twice on an unchanged run leaves exactly one
\* MetricsSnapshot per (run, brand), and every field of every snapshot has
\* the same value after the second call as after the first.  At no time has
\* a (run, brand) pair two snapshots.
AggregateTwiceSameSnapshots ==
  \A k \in 1..Len(tasks) :
    /\ \A b \in BrandIds : Cardinality(snapshotsOf(k, b)) <= 1
    /\ tasks[k].pc = "aggregated" =>
         /\ \A b \in BrandIds : Cardinality(snapshotsOf(k, b)) = 1
         /\ metricsSnapshots[k] = tasks[k].first

\* C13 witness: the second call has returned for a run with mentions, whose
\* snapshots carry a shareOfVoice.
AggregatedTwice ==
  \E k \in 1..Len(tasks) :
    /\ tasks[k].pc = "aggregated"
    /\ tasks[k].total > 0
    /\ \A n \in 1..Len(metricsSnapshots[k]) : metricsSnapshots[k][n].shareOfVoice # <<>>

\* the step of run k with which a call of calculateMetrics returns
aggregationEnds(k) ==
  /\ k \in 1..Len(tasks)
  /\ tasks[k].pc \in {"cmAggregate", "cmFindSnapshots", "cmUpdateShare"}
  /\ tasks'[k].pc \in {"setCompleted", "aggregated"}

\* C14: when calculateMetrics returns for a run whose total mention count is
\* greater than 0, the shareOfVoice of each snapshot of the run is its
\* mentionCount * 100 / total, and the shares sum to 100: the mentionCounts
\* of the snapshots add up to the total used as denominator.
ShareOfVoiceSumsTo100 ==
  [][\A k \in RunIds :
       (aggregationEnds(k) /\ tasks'[k].total > 0) =>
         LET rows == metricsSnapshots'[k]
             total == tasks'[k].total
         IN  /\ \A n \in 1..Len(rows) :
                  rows[n].shareOfVoice = <<rows[n].mentionCount * 100, total>>
             /\ SumSeq([n \in 1..Len(rows) |-> rows[n].mentionCount]) = total
             /\ SumSeq([n \in 1..Len(rows) |-> rows[n].mentionCount * 100]) = 100 * total
    ]_vars

\* the task has left calculateMetrics
Aggregated(t) == t.pc \in {"setCompleted", "returned", "aggregated"}

\* C15: after the aggregation of a run whose total mention count is 0, every
\* brand of the project has a MetricsSnapshot for the run and its shareOfVoice
\* is 0, not null.
ZeroTotalGivesZeroShare ==
  \A k \in 1..Len(tasks) :
    (Aggregated(tasks[k]) /\ tasks[k].total = 0) =>
      /\ \A b \in brandRows : snapshotsOf(k, b) # {}
      /\ \A n \in 1..Len(metricsSnapshots[k]) :
           /\ metricsSnapshots[k][n].shareOfVoice # <<>>
           /\ metricsSnapshots[k][n].shareOfVoice[1] = 0

\* the PromptResult rows of run k with no error
rowsWithoutError(k) ==
  {n \in 1..Len(promptResults[k]) : promptResults[k][n].error = <<>>}

\* the BrandMention rows of run k that give brand b a position in a
\* PromptResult with no error
mentionRows(k, b) ==
  {x \in 1..Len(brandMentions[k]) :
     /\ brandMentions[k][x].brandId = b
     /\ brandMentions[k][x].position # 0
     /\ brandMentions[k][x].promptResultId \in rowsWithoutError(k)}

ratioIs(r, a, b) == r # <<>> /\ r[1] * b = a * r[2]

\* the positions of brand b in the BrandMention rows of run k, in row order
positionsOf(k, b) ==
  LET rows == SelectSeq(brandMentions[k], LAMBDA x : x.brandId = b /\ x.position # 0)
  IN  [n \in 1..Len(rows) |-> rows[n].position]

\* run k has completed with the response "Acme, globex." to its first prompt
\* and "Globexes GLOBEX" to its second
exampleRun(k) ==
  /\ k \in 1..Len(tasks)
  /\ tasks[k].pc = "returned"
  /\ runs[k].status = "completed"
  /\ Len(promptResults[k]) = 2
  /\ promptResults[k][1].rawResponse = <<TextBoth>>
  /\ promptResults[k][2].rawResponse = <<TextGlobex>>

\* C17: for brands Acme and Globex and two prompts, the first response
\* mentioning Acme before Globex and the second only Globex, a completed run
\* yields: Acme mentionCount 1, position 1, visibilityScore 50; Globex
\* mentionCount 2, positions 2 and 1, visibilityScore 100; shareOfVoice
\* 100/3 and 200/3.
ExampleRunMetrics ==
  \A k \in RunIds :
    exampleRun(k) =>
      /\ Len(metricsSnapshots[k]) = 2
      /\ \E a, g \in 1..Len(metricsSnapshots[k]) :
           LET acme == metricsSnapshots[k][a]
               globex == metricsSnapshots[k][g]
           IN  /\ Brands[acme.brandId] = Acme
               /\ acme.mentionCount = 1
               /\ positionsOf(k, acme.brandId) = <<1>>
               /\ ratioIs(acme.visibilityScore, 50, 1)
               /\ ratioIs(acme.shareOfVoice, 100, 3)
               /\ Brands[globex.brandId] = Globex
               /\ globex.mentionCount = 2
               /\ positionsOf(k, globex.brandId) = <<2, 1>>
               /\ ratioIs(globex.visibilityScore, 100, 1)
               /\ ratioIs(globex.shareOfVoice, 200, 3)

\* C17 witness: the run of the example has completed.
ExampleRunCompleted == \E k \in RunIds : exampleRun(k)

\* extractBrandMentions has returned its records for the text and the brands
\* of the extraction
Extracted == extraction.pc = "done" /\ ~extraction.threw

\* C18: for every response text and every brand list the positions that
\* extractBrandMentions returns for the mentioned brands are a permutation of
\* 1..k, k being the number of mentioned brands, in the order of the first
\* match offsets; the brands that are not mentioned get a null position.
PositionsArePermutation ==
  Extracted =>
    LET ms == extraction.result.mentions
        bs == extraction.brands
        hit == {k \in 1..Len(ms) : ms[k].mentioned}
    IN  /\ Len(ms) = Len(bs)
        /\ \A k \in 1..Len(ms) : ms[k].brand = bs[k]
        /\ \A k \in (1..Len(ms)) \ hit : ms[k].position = 0
        /\ {ms[k].position : k \in hit} = 1..Cardinality(hit)
        /\ \A j, k \in hit : j # k => ms[j].position # ms[k].position
        /\ \A j, k \in hit :
             firstIndex(extraction.text, bs[j]) < firstIndex(extraction.text, bs[k])
               => ms[j].position < ms[k].position

\* C18 witness: two brands are mentioned and the second of the list comes
\* first in the text.
SecondBrandFirstInText ==
  /\ Extracted
  /\ Len(extraction.result.mentions) = 2
  /\ extraction.result.mentions[1].position = 2
  /\ extraction.result.mentions[2].position = 1

\* the brand name occurs in the text at index pos, in any case, with a
\* character that is not a word character, or the text edge, on each side
wholeWordAt(text, brand, pos) ==
  /\ pos + Len(brand) - 1 <= Len(text)
  /\ \A j \in 1..Len(brand) : toLowerCase(text[pos + j - 1]) = toLowerCase(brand[j])
  /\ pos = 1 \/ ~isWordChar(text[pos - 1])
  /\ pos + Len(brand) > Len(text) \/ ~isWordChar(text[pos + Len(brand)])

\* C19: extractBrandMentions marks a brand as mentioned if and only if the
\* text has a case-insensitive occurrence of the whole name that is bounded
\* on each side by a character that is not a word character or by the text
\* edge; a brand that is not mentioned gets position null and count 0.
MentionedIffWholeWord ==
  Extracted =>
    \A k \in 1..Len(extraction.brands) :
      LET mention == extraction.result.mentions[k]
      IN  /\ mention.mentioned <=>
               \E pos \in 1..Len(extraction.text) :
                 wholeWordAt(extraction.text, extraction.brands[k], pos)
          /\ ~mention.mentioned => mention.position = 0 /\ mention.count = 0

\* C20: for every brand name, also one with characters that are special in a
\* pattern, extractBrandMentions returns normally, and a provider response
\* is never turned into a failed result by the name of a mentioned brand.
ExtractionNeverThrows ==
  extraction.pc = "done" => ~extraction.threw /\ extraction.result.success

\* extractCitations has returned its records for the grounding metadata of
\* the extraction
CitationsExtracted ==
  extraction.pc = "done" /\ ~extraction.threw /\ ~extraction.citationsThrew

\* the index of the first chunk with a web entry that carries the url
firstChunkWith(chunks, url) ==
  CHOOSE i \in 1..Len(chunks) :
    /\ chunks[i].web /\ chunks[i].uri = url
    /\ \A j \in 1..(i - 1) : ~(chunks[j].web /\ chunks[j].uri = url)

\* C21: extractCitations returns one record per distinct url among the
\* chunks that have a web entry, in the order of the first occurrences, with
\* the title of the first chunk that carries the url; chunks without a web
\* entry are skipped, absent metadata gives the empty list, and no two
\* records share a url.
OneCitationPerUrl ==
  CitationsExtracted =>
    LET metadata == extraction.groundingMetadata
        chunks == metadata.groundingChunks
        cs == extraction.result.citations
        urls == {chunks[i].uri : i \in {j \in 1..Len(chunks) : chunks[j].web}}
    IN  /\ ~metadata.defined => cs = <<>>
        /\ {cs[j].url : j \in 1..Len(cs)} = urls
        /\ Len(cs) = Cardinality(urls)
        /\ \A j, k \in 1..Len(cs) : j # k => cs[j].url # cs[k].url
        /\ \A j, k \in 1..Len(cs) :
             j < k => firstChunkWith(chunks, cs[j].url) < firstChunkWith(chunks, cs[k].url)
        /\ \A j \in 1..Len(cs) :
             LET first == chunks[firstChunkWith(chunks, cs[j].url)]
             IN  cs[j].title = IF first.title = <<>> THEN "" ELSE first.title[1]

\* C21 witness: two chunks carry the same url with different titles, a chunk
\* without a web entry stands between them, and the one record returned has
\* the title of the first.
SameUrlTwoTitles ==
  /\ CitationsExtracted
  /\ LET chunks == extraction.groundingMetadata.groundingChunks
     IN  /\ Len(chunks) = 3
         /\ chunks[1].web /\ chunks[3].web
         /\ ~chunks[2].web /\ ~chunks[2].isNull
         /\ chunks[1].uri = chunks[3].uri
         /\ chunks[1].title = <<"A">> /\ chunks[3].title = <<"B">>
  /\ Len(extraction.result.citations) = 1
  /\ extraction.result.citations[1].title = "A"

\* C22: grounding metadata that is malformed (groundingChunks that is not a
\* list, a null chunk, a uri that is not a URL) never makes the extraction of
\* the citations raise: the citations are the empty list or the domain of a
\* citation is the uri itself, and the result of a prompt whose provider
\* call returned is successful with the response text and the brand mentions.
MalformedMetadataIsRecovered ==
  extraction.pc = "done" /\ ~extraction.threw =>
    /\ ~extraction.citationsThrew
    /\ extraction.result.success
    /\ extraction.result.response = extraction.text
    /\ extraction.result.mentions =
         extractBrandMentions(extraction.text, extraction.brands)
    /\ \A j \in 1..Len(extraction.result.citations) :
         LET c == extraction.result.citations[j]
         IN  schemeEnd(c.url, 1) = 0 => c.domain = c.url

\* the brands of the project that exist and have isUserBrand = true
userBrandsOf(projectId) ==
  {b \in liveBrands : brandTable[b].projectId = projectId /\ brandTable[b].isUserBrand}

\* every project has exactly one user brand
OneUserBrand ==
  \A projectId \in 1..Len(projectRows) : Cardinality(userBrandsOf(projectId)) = 1

\* a delete request for a user brand is answered 400 and changes no brand
UserBrandDeleteRejected ==
  \A brandId \in 0..MaxBrandRows :
    DelFind(brandId) /\ brandId \in liveBrands /\ brandTable[brandId].isUserBrand
      => /\ projReqs'.del.pc = "done"
         /\ projReqs'.del.code = 400
         /\ brandTable' = brandTable

\* C23: after any sequence of project creations, add-brand and delete-brand
\* requests, the rejected ones included, every project has exactly one brand
\* with isUserBrand = true; a request to delete the user brand is rejected
\* and leaves the brands unchanged.
UserBrandIsKept == []OneUserBrand /\ [][UserBrandDeleteRejected]_vars

\* C23 witness: two projects exist, a brand of one of them has been deleted,
\* a brand has been added after the second creation, and the last delete
\* request, for a user brand, was answered 400.
UserBrandDeleteWasRejected ==
  /\ Len(projectRows) = 2
  /\ \E b \in 1..Len(brandTable) : brandTable[b].deleted
  /\ Len(brandTable) > 0 /\ brandTable[Len(brandTable)].projectId = 1
  /\ projReqs.add.code = 201
  /\ projReqs.del.pc = "done" /\ projReqs.del.code = 400
  /\ projReqs.del.brandId \in liveBrands
  /\ brandTable[projReqs.del.brandId].isUserBrand

\* the Prompt rows of the project
promptsOf(projectId) ==
  {n \in 1..Len(promptRows) : promptRows[n].projectId = projectId}

\* C24: the creation of a project generates and stores exactly 25 prompts,
\* whatever the number of competitor brands, a project with the user brand
\* only included.
CreationGeneratesAllPrompts ==
  projReqs.create.pc \in {"fetch", "done"} /\ projReqs.create.projectId > 0 =>
    /\ projReqs.create.generated = PromptCount
    /\ Cardinality(promptsOf(projReqs.create.projectId)) = PromptCount

\* the observer is connected to run k and was stored in the Map while the
\* stream of another observer was stored for the run
ConnectedSecond(o, k) ==
  obs[o].pc = "open" /\ obs[o].runId = k /\ obs[o].replaced # "none"

\* C25: an observer that connects to a run while another observer of the run
\* is connected gets the connected event and then every progress event and
\* the complete event that the run emits while it stays connected, also when
\* the earlier observer has disconnected.
SecondObserverGetsEveryEvent ==
  [][\A o \in ObsIds, k \in RunIds :
       /\ (StreamRegister(o) /\ obs'[o].pc = "open" =>
             Len(obs'[o].events) = 1 /\ obs'[o].events[1].type = "connected")
       /\ (ConnectedSecond(o, k) /\ RunUpdateProgress(k) =>
             /\ Len(obs'[o].events) = Len(obs[o].events) + 1
             /\ obs'[o].events[Len(obs'[o].events)].type = "progress")
       /\ (ConnectedSecond(o, k) /\ RunSetCompleted(k) =>
             /\ Len(obs'[o].events) = Len(obs[o].events) + 1
             /\ obs'[o].events[Len(obs'[o].events)].type = "complete")]_vars

\* calculateMetrics has been called by the run
AggregatorStarted(t) ==
  t.pc \in {"cmFind", "cmUpsert", "cmAggregate", "cmFindSnapshots", "cmUpdateShare",
            "setCompleted", "returned"}

\* a PromptResult exists for the last prompt of every run that has called
\* calculateMetrics
AggregatesAfterLastResult ==
  \A k \in 1..Len(tasks) :
    AggregatorStarted(tasks[k]) /\ Len(tasks[k].prompts) > 0 =>
      resultsFor(k, Len(tasks[k].prompts)) # {}

\* the status becomes `completed` in the step that follows the return of
\* calculateMetrics, when every brand of the run has its snapshot
CompletesAfterAggregation ==
  \A k \in 1..Len(runs) :
    runs[k].status # "completed" /\ runs'[k].status = "completed" =>
      /\ tasks[k].pc = "setCompleted"
      /\ \A b \in 1..Len(tasks[k].brands) : snapshotIndex(k, tasks[k].brands[b]) # 0

\* a stream gets the complete event of a run whose status is `completed`
NotifiesAfterCompleted ==
  \A o \in ObsIds :
    /\ Len(obs'[o].events) > Len(obs[o].events)
    /\ obs'[o].events[Len(obs'[o].events)].type = "complete"
    => runs'[obs'[o].runId].status = "completed"

\* C26: within a run the aggregator starts only after a PromptResult has
\* been recorded for the last prompt of the list, the status becomes
\* `completed` only after the aggregation has finished, and the complete
\* event is emitted only after the status is `completed`.
AggregateThenCompleteThenNotify ==
  /\ []AggregatesAfterLastResult
  /\ [][CompletesAfterAggregation /\ NotifiesAfterCompleted]_vars

\* C26 witness: a run of two prompts, the last of which failed at the
\* provider, is completed, has a snapshot, and its observer got the complete
\* event from the run.
CompletedAndNotified ==
  /\ Len(runs) = 1 /\ runs[1].status = "completed"
  /\ tasks[1].pc = "returned"
  /\ Len(tasks[1].prompts) = 2
  /\ tasks[1].outcomes = <<"ok", "raise">>
  /\ metricsSnapshots[1] # <<>>
  /\ Len(obs["o1"].events) > 1
  /\ obs["o1"].events[Len(obs["o1"].events)].type = "complete"

\* the index in the prompt list of run k of the prompt of its n-th PromptResult
listIndex(k, n) ==
  CHOOSE j \in 1..Len(tasks[k].prompts) :
    tasks[k].prompts[j] = promptResults[k][n].promptId

\* the prompts before the one the run is at have a PromptResult, the prompts
\* after it have none, and the rows follow the order of the prompt list
OnePromptAtATime ==
  \A k \in 1..Len(tasks) :
    LET t == tasks[k]
    IN  /\ \A j \in 1..Len(t.prompts) :
             /\ j <= t.i => resultsFor(k, j) # {}
             /\ j > t.i + 1 => resultsFor(k, j) = {}
        /\ \A n \in 1..Len(promptResults[k]) :
             \E j \in 1..Len(t.prompts) : t.prompts[j] = promptResults[k][n].promptId
        /\ \A n, m \in 1..Len(promptResults[k]) :
             n < m => listIndex(k, n) <= listIndex(k, m)

\* a provider query is issued right after the update to `processing` for the
\* first prompt, and after the pacing delay for the others
DelayBeforeLaterQueries ==
  \A k \in 1..Len(tasks) :
    tasks[k].pc # "query" /\ tasks'[k].pc = "query" =>
      IF tasks'[k].i = 0 THEN tasks[k].pc = "setProcessing"
                         ELSE tasks[k].pc = "delay" /\ tasks[k].i = tasks'[k].i

\* C27: within a run the prompts are handled one at a time in the order of
\* the prompt list: the provider query for a prompt is issued only after the
\* PromptResult of the prompt before it is recorded, a pacing delay precedes
\* every provider query but the first, and the PromptResults are created in
\* the order of the prompt list.
PromptsInListOrder == []OnePromptAtATime /\ [][DelayBeforeLaterQueries]_vars

\* C27 witness: the provider query for the second prompt is in flight, after
\* a delay, and the first prompt has its PromptResult.
SecondQueryAfterFirstResult ==
  /\ Len(tasks) = 1
  /\ tasks[1].pc = "query" /\ tasks[1].i = 1
  /\ Len(promptResults[1]) = 1
  /\ promptResults[1][1].promptId = tasks[1].prompts[1]

\* the numbers of phrases of each lexicon that the scored context includes
foundPositive ==
  Cardinality({k \in 1..Len(positivePatterns) :
                 includes(lowerCase(extraction.text), positivePatterns[k])})
foundNegative ==
  Cardinality({k \in 1..Len(negativePatterns) :
                 includes(lowerCase(extraction.text), negativePatterns[k])})

\* C28: with p and n the numbers of positive and negative lexicon phrases
\* found in the context, the sentiment score is 0 when p + n = 0 and
\* (p - n) / max(p, n) otherwise, always within [-1, 1]; the label is
\* positive iff the score is above 0.2, negative iff it is below -0.2 and
\* neutral otherwise; a context with only positive phrases is positive, one
\* with only negative phrases is negative, one with no phrase is neutral
\* with score 0.
SentimentScoreAndLabel ==
  extraction.pc = "scored" =>
    LET p == foundPositive
        n == foundNegative
        num == extraction.sentiment.score[1]
        den == extraction.sentiment.score[2]
        label == extraction.sentiment.sentiment
    IN  /\ den > 0
        /\ p + n = 0 => num = 0
        /\ p + n > 0 => num * (IF p >= n THEN p ELSE n) = (p - n) * den
        /\ -den <= num /\ num <= den
        /\ label \in {"positive", "negative", "neutral"}
        /\ label = "positive" <=> 5 * num > den
        /\ label = "negative" <=> 5 * num < -den
        /\ p > 0 /\ n = 0 => label = "positive"
        /\ n > 0 /\ p = 0 => label = "negative"
        /\ p + n = 0 => label = "neutral"

\* C28 witness: two positive phrases and one negative phrase are found, the
\* score is 1/2 and the label positive.
TwoPositiveOneNegative ==
  /\ extraction.pc = "scored"
  /\ foundPositive = 2 /\ foundNegative = 1
  /\ 2 * extraction.sentiment.score[1] = extraction.sentiment.score[2]
  /\ extraction.sentiment.sentiment = "positive"

\* C29: whenever the status of a run is `completed`, its processedPrompts
\* equals its totalPrompts, and both equal the number of prompts the run has
\* handled and the totalPrompts that the start request acknowledged with its
\* 202 answer, also when prompts are activated or deactivated between the
\* start request and the moment the run reads the prompt list.
CompletedCountsMatchAcknowledged ==
  \A r \in ReqIds :
    reqs[r].code = 202 /\ runs[reqs[r].runId].status = "completed" =>
      LET k == reqs[r].runId
      IN  /\ runs[k].processedPrompts = runs[k].totalPrompts
          /\ runs[k].totalPrompts = tasks[k].i
          /\ runs[k].totalPrompts = reqs[r].nPrompts

\* C30: every observer that connects to the progress stream of a run
\* eventually has its stream ended once the run is terminal: an observer
\* whose stream is open gets the complete event, or disconnects, whenever it
\* connected relative to the completion of the run.
OpenStreamEventuallyEnds ==
  \A o \in OneObs : (obs[o].pc = "open") ~> (obs[o].pc \in {"ended", "closed"})
====
